---------------------------- MODULE Spec2Model ----------------------------
(***************************************************************************)
(* Model of the RPC provider pool with failover (server/lib/rpcFailover.ts) *)
(* and of the adaptive chunk loop of the DApp activity scanner              *)
(* (server/lib/dappActivityScanner.ts).                                     *)
(*                                                                          *)
(* Two specifications share the module:                                     *)
(*   SpecPool - the provider pool of one chain, concurrent callers of       *)
(*              executeWithFailover, recovery timers and the clock;         *)
(*   SpecScan - one run of the chunk loop of scanDAppActivity against a     *)
(*              provider that answers every log request arbitrarily.        *)
(***************************************************************************)
EXTENDS Integers, Sequences, FiniteSets, TLC

(***************************************************************************)
(* Bounds of the model                                                      *)
(***************************************************************************)
\* providers in the chain's configuration (RPC_CONFIGS lists 2 to 5 per chain)
NumProviders == 2
\* calls of executeWithFailover started in one behaviour
MaxCalls == 2

(***************************************************************************)
(* Program constants of rpcFailover.ts                                      *)
(***************************************************************************)
MAX_FAILURES_BEFORE_UNHEALTHY == 3
UNHEALTHY_COOLDOWN == 300000
\* default value of the parameter maxRetries; no caller in the repository passes another
DefaultMaxRetries == 3
\* base and cap of the exponential backoff between attempts, in ms
BackoffBaseMs == 1000
BackoffCapMs == 5000

Providers == 1..NumProviders
\* two requests that call executeWithFailover concurrently
Callers == {"c1", "c2"}

\* A URL is a natural number; 0 is the empty string '' of an unset environment variable.
EmptyUrl == 0
\* the value of a variable that holds nothing (null / undefined)
None == -1

VARIABLES
  providers,     \* RPC_CONFIGS[chain].providers: array of RPCProvider
  timers,        \* pending recovery timers (setTimeout of reportProviderFailure)
  now,           \* Date.now(), ms
  pc,            \* per caller: position in executeWithFailover
  providerUrl,   \* per caller: const providerUrl of the try block
  attemptCount,  \* per caller: let attemptCount
  lastError,     \* per caller: let lastError (the invocation that threw it)
  wakeAt,        \* per caller: instant at which the backoff timer resolves
  outcome,       \* per caller: value returned or cause carried by the thrown error
  reportedUrl,   \* per caller: const providerUrl of the catch block
  invocations,   \* per caller: number of times operation(provider) was invoked
  tried,         \* per caller: URLs the attempts of the current call ran on
  markedAt,      \* per provider: instant of the latest flip to unhealthy
  streak,        \* per provider: consecutive failure reports received
  callsMade,     \* calls of executeWithFailover started so far
  scanPc,        \* scanDAppActivity: position ("idle", "loop", "done")
  latestBlock,   \* const latestBlock
  fromBlock,     \* const fromBlock
  chunkSize,     \* let chunkSize
  maxChunkSize,  \* let maxChunkSize
  minChunkSize,  \* let minChunkSize
  consecutiveErrors,  \* let consecutiveErrors
  rateLimited,   \* let rateLimited
  degradedMode,  \* let degradedMode
  currentBlock,  \* let currentBlock (the cursor)
  coveragePercent,    \* const coveragePercent (None until computed)
  fetched,       \* blocks covered by a successful log fetch
  lastRequest,   \* range <<from, to>> of the latest log request
  sawRangeLimit, \* a block-range limit was read from a provider error
  apiCall,       \* the latest direct call of an exported pool function and its result
  apiCalls,      \* number of direct calls of exported pool functions so far
  hPc,           \* scanRecentHolders: position ("chain", "fetch", "done")
  head,          \* the number of the latest block of the chain
  hold,          \* the token balance of every account on the chain
  supply,        \* the token's totalSupply() on the chain
  chainLogs,     \* the Transfer logs of the token on the chain, in block order
  hLatestBlock,  \* const latestBlock of scanRecentHolders
  hFromBlock,    \* const fromBlock of scanRecentHolders
  loopStart,     \* let start of the loop over the initial chunks
  stack,         \* pending calls of fetchChunkWithRetry, the running one first
  allLogs,       \* const allLogs
  successfulChunks,   \* let successfulChunks
  failedChunks,  \* let failedChunks
  balances,      \* const balances: the Map as the sequence of its entries
  holders,       \* const holders: the list returned
  completeness,  \* let completeness ("none" until the scan returns)
  tPc,           \* detectTradingTax: position ("idle", "probe", "done")
  tChain,        \* the chainId passed to detectTradingTax
  feeFunctions,  \* the contract: the value each fee function returns, or Missing
  variantIdx,    \* the position of the loop over feeVariants
  buyFeeRaw,     \* let buyFeeRaw (NullFee: null)
  sellFeeRaw,    \* let sellFeeRaw (NullFee: null)
  readSucceeded, \* let readSucceeded
  providerErrors,  \* ghost: a probe of this run failed in the provider, not the contract
  taxResult,     \* the value detectTradingTax returned
  taxRuns,       \* number of calls of detectTradingTax so far
  lPc,           \* liveTransactionScanner: "idle", or the function that has returned
  txLogs,        \* decodeEventLogs: the parameter logs
  tokenAddress,  \* decodeEventLogs: the parameter tokenAddress
  decodedLogs,   \* the DecodedLog[] that was returned or passed on
  txType,        \* the value determineTransactionType returned ("none" before)
  fPc,           \* analyzeTokenFlow: "idle", or "done" once it has returned
  transfers,     \* const transfers, the TransferEvent[] fetchTransferEvents returned
  flowDecimals,  \* the parameter decimals
  currentPrice,  \* the parameter currentPrice (NoPrice when it is left out)
  flowMetrics,   \* the TokenFlowMetrics that was returned
  rPc,           \* ranking of scanDAppActivity: "idle", "loop" (over the hashes) or "done"
  logHashes,     \* allLogs.map(log => log.transactionHash)
  txTo,          \* which contract each transaction was sent to (a pattern of TxToPatterns)
  txHashList,    \* Array.from(txHashes).slice(0, 100)
  hashIdx,       \* position of the for loop in txHashList
  contractInteractions,\* the Map contractInteractions, entries in insertion order
  processedCount,\* let processedCount
  activities,    \* const activities
  aPc,           \* analyzeEnhancedRisk: "idle", the detector it awaits, or "done"
  tokenData,     \* the parameter tokenData
  score,         \* let score
  factors,       \* const factors (the names of the risk factors)
  isHoneypot,    \* const isHoneypot
  riskAnalysis,   \* the RiskAnalysis that was returned
  gPc,          \* getContractAge: position ("idle", "search", "done")
  ageLatest,    \* const latestBlock
  codeAt,       \* per block: getCode(address, block) is not "0x"
  low,          \* let low
  high,         \* let high
  deployBlock,  \* let deployBlock
  ageResult,   \* value getContractAge resolves with
  yPc,          \* detectHoneypot: position ("idle", "tradingOpen", "tradingEnabled", "done")
  codeSelectors, \* honeypot selectors the code includes
  codeLength,   \* code.length
  honeypotScore, \* let honeypotScore
  honeypotResult, \* value detectHoneypot resolves with
  qPc,          \* accurate mode: position ("idle", "loop", "batch", "done")
  qLedger,      \* const balances: the ledger of deltas
  balancePattern, \* what balanceOf answers on the chain
  failPattern,  \* which balanceOf queries are rejected
  addresses,    \* const addresses
  batchStart,   \* let i of the batch loop
  inFlight,     \* queries of the batch that have not settled
  actualBalances, \* let actualBalances
  accurateHolders \* the holders returned

poolVars == <<providers, timers, now, pc, providerUrl, attemptCount, lastError,
              wakeAt, outcome, reportedUrl, invocations, tried, markedAt, streak,
              callsMade>>

scanVars == <<scanPc, latestBlock, fromBlock, chunkSize, maxChunkSize, minChunkSize,
              consecutiveErrors, rateLimited, degradedMode, currentBlock,
              coveragePercent, fetched, lastRequest, sawRangeLimit>>

apiVars == <<apiCall, apiCalls>>

holderVars == <<hPc, head, hold, supply, chainLogs, hLatestBlock, hFromBlock, loopStart,
                stack, allLogs, successfulChunks, failedChunks, balances, holders,
                completeness>>

\* the locals of the calls of executeWithFailover
callVars == <<pc, providerUrl, attemptCount, lastError, wakeAt, outcome, reportedUrl,
              invocations, tried, callsMade>>

taxVars == <<tPc, tChain, feeFunctions, variantIdx, buyFeeRaw, sellFeeRaw, readSucceeded,
             providerErrors, taxResult, taxRuns>>

liveVars == <<lPc, txLogs, tokenAddress, decodedLogs, txType>>

flowVars == <<fPc, transfers, flowDecimals, currentPrice, flowMetrics>>

rankVars == <<rPc, logHashes, txTo, txHashList, hashIdx, contractInteractions,
              processedCount, activities>>

riskVars == <<aPc, tokenData, score, factors, isHoneypot, riskAnalysis>>
ageVars == <<gPc, ageLatest, codeAt, low, high, deployBlock, ageResult>>
honeypotVars == <<yPc, codeSelectors, codeLength, honeypotScore, honeypotResult>>
accurateVars == <<qPc, qLedger, balancePattern, failPattern, addresses, batchStart, inFlight, actualBalances, accurateHolders>>

\* what the steps of one component leave alone
outsidePool == <<scanVars, apiVars, holderVars, taxVars, liveVars, flowVars, rankVars,
                 riskVars,
                 ageVars,
                 honeypotVars,
                 accurateVars>>
outsideApi == <<scanVars, callVars, holderVars, taxVars, liveVars, flowVars, rankVars,
                 riskVars,
                 ageVars,
                 honeypotVars,
                 accurateVars>>
outsideScan == <<poolVars, apiVars, holderVars, taxVars, liveVars, flowVars, rankVars,
                 riskVars,
                 ageVars,
                 honeypotVars,
                 accurateVars>>
outsideHolder == <<poolVars, scanVars, apiVars, taxVars, liveVars, flowVars, rankVars,
                 riskVars,
                 ageVars,
                 honeypotVars,
                 accurateVars>>
outsideTax == <<poolVars, scanVars, apiVars, holderVars, liveVars, flowVars, rankVars,
                 riskVars,
                 ageVars,
                 honeypotVars,
                 accurateVars>>
outsideLive == <<poolVars, scanVars, apiVars, holderVars, taxVars, flowVars, rankVars,
                 riskVars,
                 ageVars,
                 honeypotVars,
                 accurateVars>>
outsideFlow == <<poolVars, scanVars, apiVars, holderVars, taxVars, liveVars, rankVars,
                 riskVars,
                 ageVars,
                 honeypotVars,
                 accurateVars>>
outsideRank == <<poolVars, scanVars, apiVars, holderVars, taxVars, liveVars, flowVars,
                 riskVars,
                 ageVars,
                 honeypotVars,
                 accurateVars>>

outsideRisk == <<poolVars, scanVars, apiVars, holderVars, taxVars, liveVars, flowVars,
                 rankVars,
                 ageVars,
                 honeypotVars,
                 accurateVars>>

outsideAge == <<poolVars, scanVars, apiVars, holderVars, taxVars, liveVars, flowVars,
                 rankVars, riskVars,
                 honeypotVars,
                 accurateVars>>

outsideHoneypot == <<poolVars, scanVars, apiVars, holderVars, taxVars, liveVars, flowVars,
                 rankVars, riskVars, ageVars,
                 accurateVars>>

outsideAccurate == <<poolVars, scanVars, apiVars, holderVars, taxVars, liveVars, flowVars,
                 rankVars, riskVars, ageVars, honeypotVars>>

vars == <<poolVars, scanVars, apiVars, holderVars, taxVars, liveVars, flowVars,
          rankVars, riskVars,
                 ageVars,
                 honeypotVars,
                 accurateVars>>

(***************************************************************************)
(* RPC_CONFIGS: the providers of a chain in configuration order.  Priority  *)
(* grows with the position.  The URL of the first provider comes from the   *)
(* environment and is '' when the variable is unset; the others are         *)
(* hard-coded (every chain has at least one hard-coded URL).                *)
(***************************************************************************)
RPC_CONFIGS(envSet) ==
  [i \in Providers |->
     [url |-> IF i = 1 /\ ~envSet THEN EmptyUrl ELSE i,
      priority |-> i,
      isHealthy |-> TRUE,
      failureCount |-> 0]]

\* String.prototype.toLowerCase over the strings the model passes to it
ToLowerCase(s) ==
  CASE s = "ETHEREUM" -> "ethereum"
    [] s = "Ethereum" -> "ethereum"
    [] s = "Solana" -> "solana"
    [] s = "0xA1" -> "0xa1"
    [] s = "0xT1" -> "0xt1"
    [] s = "Log" -> "log"
    [] s = "eth_getLogs" -> "eth_getlogs"
    [] OTHER -> s

\* the keys of RPC_CONFIGS (one configured chain is modelled)
ConfiguredChains == {"ethereum"}
ChainInputs == {"Ethereum", "dogechain"}

HasConfig(chainId) == ToLowerCase(chainId) \in ConfiguredChains

(***************************************************************************)
(* getBestProvider                                                          *)
(***************************************************************************)
\* positions of config.providers.filter(p => p.url && p.url.length > 0), in order
AvailableProviders(provs) ==
  SelectSeq([i \in 1..NumProviders |-> i], LAMBDA i : provs[i].url # EmptyUrl)

\* mutant of HealthyProviders: the health flag is not looked at
HealthyProviders_IgnoringHealth(provs) == AvailableProviders(provs)

\* availableProviders.filter(p => p.isHealthy)
HealthyProviders(provs) ==
  SelectSeq(AvailableProviders(provs), LAMBDA i : provs[i].isHealthy)

\* head of a stable sort by ascending priority
SortedHead(provs, seq) ==
  LET best == CHOOSE k \in 1..Len(seq) :
                /\ \A j \in 1..Len(seq) : provs[seq[k]].priority <= provs[seq[j]].priority
                /\ \A j \in 1..(k - 1) : provs[seq[j]].priority # provs[seq[k]].priority
  IN seq[best]

\* the provider position whose URL getBestProvider returns
BestIndex(provs) ==
  IF Len(HealthyProviders(provs)) = 0
    THEN AvailableProviders(provs)[1]
    ELSE SortedHead(provs, HealthyProviders(provs))

\* the value getBestProvider returns
getBestProviderUrl(provs) == provs[BestIndex(provs)].url

\* mutant of getBestProviderPool: no reset
getBestProviderPool_NoReset(provs) == provs

\* the pool after getBestProvider: all providers reset when none is healthy
getBestProviderPool(provs) ==
  IF Len(HealthyProviders(provs)) = 0
    THEN [i \in Providers |->
            IF provs[i].url # EmptyUrl
              THEN [provs[i] EXCEPT !.isHealthy = TRUE, !.failureCount = 0]
              ELSE provs[i]]
    ELSE provs

\* config.providers.find(p => p.url === providerUrl): first position, None if absent
FindProvider(provs, url) ==
  IF \E i \in Providers : provs[i].url = url
    THEN CHOOSE i \in Providers :
           provs[i].url = url /\ \A j \in 1..(i - 1) : provs[j].url # url
    ELSE None

(***************************************************************************)
(* reportProviderFailure / reportProviderSuccess                            *)
(***************************************************************************)
\* mutant of FailureMarksUnhealthy: the threshold is reached one failure early
FailureMarksUnhealthy_Early(count) == count >= MAX_FAILURES_BEFORE_UNHEALTHY - 1

\* if (provider.failureCount >= MAX_FAILURES_BEFORE_UNHEALTHY)
FailureMarksUnhealthy(count) == count >= MAX_FAILURES_BEFORE_UNHEALTHY

reportProviderFailurePool(provs, url) ==
  LET i == FindProvider(provs, url) IN
  IF i = None THEN provs
  ELSE LET n == provs[i].failureCount + 1 IN
       [provs EXCEPT ![i] = [@ EXCEPT !.failureCount = n,
                                      !.isHealthy = IF FailureMarksUnhealthy(n)
                                                      THEN FALSE ELSE @]]

\* mutant of reportProviderFailureTimers: the recovery comes after twice the cooldown
reportProviderFailureTimers_Late(provs, tms, url, t) ==
  LET i == FindProvider(provs, url) IN
  IF i # None /\ FailureMarksUnhealthy(provs[i].failureCount + 1)
    THEN tms \cup {[p |-> i, at |-> t + 2 * UNHEALTHY_COOLDOWN]}
    ELSE tms

\* mutant of reportProviderFailureTimers: no recovery is scheduled
reportProviderFailureTimers_NoRecovery(provs, tms, url, t) == tms

\* the recovery timers after reportProviderFailure (one more when the threshold is reached)
reportProviderFailureTimers(provs, tms, url, t) ==
  LET i == FindProvider(provs, url) IN
  IF i # None /\ FailureMarksUnhealthy(provs[i].failureCount + 1)
    THEN tms \cup {[p |-> i, at |-> t + UNHEALTHY_COOLDOWN]}
    ELSE tms

Max(a, b) == IF a >= b THEN a ELSE b
Min(a, b) == IF a <= b THEN a ELSE b

\* mutant of reportProviderSuccessPool: no floor at 0
reportProviderSuccessPool_NoFloor(provs, url) ==
  LET i == FindProvider(provs, url) IN
  IF i = None THEN provs
  ELSE [provs EXCEPT ![i].failureCount = @ - 1]

reportProviderSuccessPool(provs, url) ==
  LET i == FindProvider(provs, url) IN
  IF i = None THEN provs
  ELSE [provs EXCEPT ![i].failureCount = Max(0, @ - 1)]


(***************************************************************************)
(* executeWithFailover                                                      *)
(***************************************************************************)
RECURSIVE Pow2(_)
Pow2(n) == IF n = 0 THEN 1 ELSE 2 * Pow2(n - 1)

\* Math.min(1000 * Math.pow(2, attemptCount), 5000)
BackoffMs(attempt) == Min(BackoffBaseMs * Pow2(attempt), BackoffCapMs)

\* mutant of MayAttempt: one attempt too many
MayAttempt_OffByOne(count) == count <= DefaultMaxRetries

\* the loop condition: while (attemptCount < maxRetries)
MayAttempt(count) == count < DefaultMaxRetries

\* mutant of CatchLastError: the first error is kept
CatchLastError_KeepFirst(prev, err) == IF prev = None THEN err ELSE prev

\* lastError = error as Error
CatchLastError(prev, err) == err

\* the cause carried by the error thrown after the loop: lastError?.message
ThrownCause(last) == last

NoOutcome == [kind |-> "none", of |-> None]

TypeOKPool ==
  /\ providers \in [Providers -> [url : 0..NumProviders, priority : Providers,
                                  isHealthy : BOOLEAN, failureCount : Nat]]
  /\ \A t \in timers : t.p \in Providers /\ t.at \in Nat
  /\ now \in Nat
  /\ pc \in [Callers -> {"idle", "op", "backoff", "done", "failed", "noconfig"}]
  /\ attemptCount \in [Callers -> 0..DefaultMaxRetries]
  /\ callsMade \in 0..MaxCalls

InitPool ==
  /\ \E envSet \in BOOLEAN : providers = RPC_CONFIGS(envSet)
  /\ timers = {}
  /\ now = 0
  /\ pc = [c \in Callers |-> "idle"]
  /\ providerUrl = [c \in Callers |-> None]
  /\ attemptCount = [c \in Callers |-> 0]
  /\ lastError = [c \in Callers |-> None]
  /\ wakeAt = [c \in Callers |-> None]
  /\ outcome = [c \in Callers |-> NoOutcome]
  /\ reportedUrl = [c \in Callers |-> None]
  /\ invocations = [c \in Callers |-> 0]
  /\ tried = [c \in Callers |-> {}]
  /\ markedAt = [i \in Providers |-> None]
  /\ streak = [i \in Providers |-> 0]
  /\ callsMade = 0

\* the try block up to the await: select a provider and invoke the operation on it
Attempt(c, invokedBefore, triedBefore) ==
  /\ providers' = getBestProviderPool(providers)
  /\ providerUrl' = [providerUrl EXCEPT ![c] = getBestProviderUrl(providers)]
  /\ invocations' = [invocations EXCEPT ![c] = invokedBefore + 1]
  /\ tried' = [tried EXCEPT ![c] = triedBefore \cup {getBestProviderUrl(providers)}]
  /\ pc' = [pc EXCEPT ![c] = "op"]

\* a call of executeWithFailover up to its first await
Call(c, chainId) ==
  /\ pc[c] \in {"idle", "done", "failed", "noconfig"}
  /\ callsMade < MaxCalls
  /\ callsMade' = callsMade + 1
  /\ attemptCount' = [attemptCount EXCEPT ![c] = 0]
  /\ lastError' = [lastError EXCEPT ![c] = None]
  /\ reportedUrl' = [reportedUrl EXCEPT ![c] = None]
  /\ wakeAt' = [wakeAt EXCEPT ![c] = None]
  /\ IF ~HasConfig(chainId)
       THEN /\ pc' = [pc EXCEPT ![c] = "noconfig"]
            /\ outcome' = [outcome EXCEPT ![c] = [kind |-> "noconfig", of |-> None]]
            /\ invocations' = [invocations EXCEPT ![c] = 0]
            /\ tried' = [tried EXCEPT ![c] = {}]
            /\ providerUrl' = [providerUrl EXCEPT ![c] = None]
            /\ UNCHANGED providers
       ELSE /\ Attempt(c, 0, {})
            /\ outcome' = [outcome EXCEPT ![c] = NoOutcome]
  /\ UNCHANGED <<timers, now, markedAt, streak>>
  /\ UNCHANGED outsidePool


\* the awaited operation resolves: reportProviderSuccess, return result; the locals
\* of the call go out of scope
OpSucceed(c) ==
  /\ pc[c] = "op"
  /\ providers' = reportProviderSuccessPool(providers, providerUrl[c])
  /\ streak' = [i \in Providers |->
                  IF i = FindProvider(providers, providerUrl[c]) THEN 0 ELSE streak[i]]
  /\ outcome' = [outcome EXCEPT ![c] = [kind |-> "returned", of |-> invocations[c]]]
  /\ pc' = [pc EXCEPT ![c] = "done"]
  /\ providerUrl' = [providerUrl EXCEPT ![c] = None]
  /\ attemptCount' = [attemptCount EXCEPT ![c] = 0]
  /\ lastError' = [lastError EXCEPT ![c] = None]
  /\ invocations' = [invocations EXCEPT ![c] = 0]
  /\ tried' = [tried EXCEPT ![c] = {}]
  /\ UNCHANGED <<timers, now, wakeAt, reportedUrl, markedAt, callsMade>>
  /\ UNCHANGED outsidePool

\* the awaited operation rejects: the catch block, then the backoff or the final throw,
\* after which the locals of the call go out of scope
OpFail(c) ==
  /\ pc[c] = "op"
  /\ LET url == getBestProviderUrl(providers)
         selected == getBestProviderPool(providers)
         i == FindProvider(selected, url)
         count == attemptCount[c] + 1
         marks == i # None /\ FailureMarksUnhealthy(selected[i].failureCount + 1)
         caught == CatchLastError(lastError[c], invocations[c])
     IN
     /\ reportedUrl' = [reportedUrl EXCEPT ![c] = url]
     /\ providers' = reportProviderFailurePool(selected, url)
     /\ timers' = reportProviderFailureTimers(selected, timers, url, now)
     /\ markedAt' = [j \in Providers |-> IF j = i /\ marks THEN now ELSE markedAt[j]]
     /\ streak' = [j \in Providers |->
                     IF j = i THEN Min(streak[j] + 1, MAX_FAILURES_BEFORE_UNHEALTHY)
                     ELSE streak[j]]
     /\ IF MayAttempt(count)
          THEN /\ pc' = [pc EXCEPT ![c] = "backoff"]
               /\ lastError' = [lastError EXCEPT ![c] = caught]
               /\ attemptCount' = [attemptCount EXCEPT ![c] = count]
               /\ wakeAt' = [wakeAt EXCEPT ![c] = now + BackoffMs(count)]
               /\ UNCHANGED <<outcome, providerUrl, invocations, tried>>
          ELSE /\ pc' = [pc EXCEPT ![c] = "failed"]
               /\ outcome' = [outcome EXCEPT ![c] =
                                [kind |-> "threw", of |-> ThrownCause(caught)]]
               /\ lastError' = [lastError EXCEPT ![c] = None]
               /\ attemptCount' = [attemptCount EXCEPT ![c] = 0]
               /\ providerUrl' = [providerUrl EXCEPT ![c] = None]
               /\ invocations' = [invocations EXCEPT ![c] = 0]
               /\ tried' = [tried EXCEPT ![c] = {}]
               /\ UNCHANGED wakeAt
  /\ UNCHANGED <<now, callsMade>>
  /\ UNCHANGED outsidePool

\* the backoff timer resolves (and is gone): next iteration of the loop, the catch
\* block's providerUrl is out of scope
Wake(c) ==
  /\ pc[c] = "backoff"
  /\ now >= wakeAt[c]
  /\ Attempt(c, invocations[c], tried[c])
  /\ wakeAt' = [wakeAt EXCEPT ![c] = None]
  /\ reportedUrl' = [reportedUrl EXCEPT ![c] = None]
  /\ UNCHANGED <<timers, now, attemptCount, lastError, outcome, markedAt, streak,
                 callsMade>>
  /\ UNCHANGED outsidePool

\* the recovery callback scheduled by reportProviderFailure
RecoveryTimer(t) ==
  /\ t \in timers
  /\ now >= t.at
  /\ providers' = [providers EXCEPT ![t.p] = [@ EXCEPT !.isHealthy = TRUE,
                                                       !.failureCount = 0]]
  /\ timers' = timers \ {t}
  /\ UNCHANGED <<now, pc, providerUrl, attemptCount, lastError, wakeAt, outcome,
                 reportedUrl, invocations, tried, markedAt, streak, callsMade>>
  /\ UNCHANGED outsidePool

\* instants at which a pending timer (recovery or backoff) is due
PendingDue ==
  {t.at : t \in timers} \cup {wakeAt[c] : c \in {d \in Callers : pc[d] = "backoff"}}

SetMin(S) == CHOOSE x \in S : \A y \in S : x <= y

\* time passes up to the next pending timer; a due timer runs before time moves on
JumpToTimer ==
  /\ PendingDue # {}
  /\ now < SetMin(PendingDue)
  /\ now' = SetMin(PendingDue)
  /\ UNCHANGED <<providers, timers, pc, providerUrl, attemptCount, lastError, wakeAt,
                 outcome, reportedUrl, invocations, tried, markedAt, streak,
                 callsMade>>
  /\ UNCHANGED outsidePool

NextPool ==
  \/ \E c \in Callers, chainId \in ChainInputs : Call(c, chainId)
  \/ \E c \in Callers : OpSucceed(c)
  \/ \E c \in Callers : OpFail(c)
  \/ \E c \in Callers : Wake(c)
  \/ \E t \in timers : RecoveryTimer(t)
  \/ JumpToTimer



(***************************************************************************)
(* The exported functions of the pool, called directly                      *)
(***************************************************************************)
\* Bounds of the direct calls
MaxApiCalls == 8

\* provider URLs a caller passes: '', the configured URLs and a URL of no provider
UrlInputs == 0..(NumProviders + 1)

NoApiCall == [fn |-> "none", chain |-> "", url |-> None, returned |-> None, threw |-> FALSE]

InitApi ==
  /\ apiCall = NoApiCall
  /\ apiCalls = 0

\* export function getBestProvider(chainId): throws for a chain without configuration
getBestProvider(chainId) ==
  /\ apiCalls < MaxApiCalls
  /\ apiCalls' = apiCalls + 1
  /\ IF ~HasConfig(chainId) \/ Len(AvailableProviders(providers)) = 0
       THEN /\ apiCall' = [fn |-> "getBestProvider", chain |-> chainId, url |-> None,
                           returned |-> None, threw |-> TRUE]
            /\ UNCHANGED providers
       ELSE /\ apiCall' = [fn |-> "getBestProvider", chain |-> chainId, url |-> None,
                           returned |-> getBestProviderUrl(providers), threw |-> FALSE]
            /\ providers' = getBestProviderPool(providers)
  /\ UNCHANGED <<timers, now, markedAt, streak>>
  /\ UNCHANGED outsideApi

\* export function reportProviderFailure(chainId, providerUrl)
reportProviderFailure(chainId, url) ==
  /\ apiCalls < MaxApiCalls
  /\ apiCalls' = apiCalls + 1
  /\ apiCall' = [fn |-> "reportProviderFailure", chain |-> chainId, url |-> url,
                 returned |-> None, threw |-> FALSE]
  /\ IF ~HasConfig(chainId)
       THEN UNCHANGED <<providers, timers, markedAt, streak>>
       ELSE LET i == FindProvider(providers, url)
                marks == i # None /\ FailureMarksUnhealthy(providers[i].failureCount + 1)
            IN /\ providers' = reportProviderFailurePool(providers, url)
               /\ timers' = reportProviderFailureTimers(providers, timers, url, now)
               /\ markedAt' = [j \in Providers |->
                                 IF j = i /\ marks THEN now ELSE markedAt[j]]
               /\ streak' = [j \in Providers |->
                               IF j = i
                                 THEN Min(streak[j] + 1, MAX_FAILURES_BEFORE_UNHEALTHY)
                                 ELSE streak[j]]
  /\ UNCHANGED now
  /\ UNCHANGED outsideApi

\* export function reportProviderSuccess(chainId, providerUrl, responseTime)
reportProviderSuccess(chainId, url) ==
  /\ apiCalls < MaxApiCalls
  /\ apiCalls' = apiCalls + 1
  /\ apiCall' = [fn |-> "reportProviderSuccess", chain |-> chainId, url |-> url,
                 returned |-> None, threw |-> FALSE]
  /\ IF ~HasConfig(chainId)
       THEN UNCHANGED <<providers, streak>>
       ELSE /\ providers' = reportProviderSuccessPool(providers, url)
            /\ streak' = [j \in Providers |->
                            IF j = FindProvider(providers, url) THEN 0 ELSE streak[j]]
  /\ UNCHANGED <<timers, now, markedAt>>
  /\ UNCHANGED outsideApi

NextPoolApi ==
  \/ \E chainId \in ChainInputs : getBestProvider(chainId)
  \/ \E chainId \in ChainInputs, url \in UrlInputs : reportProviderFailure(chainId, url)
  \/ \E chainId \in ChainInputs, url \in UrlInputs : reportProviderSuccess(chainId, url)
  \/ \E t \in timers : RecoveryTimer(t)
  \/ JumpToTimer


(***************************************************************************)
(* scanDAppActivity: the adaptive chunk loop and the coverage report        *)
(***************************************************************************)
\* let chunkSize = 50, maxChunkSize = 2000, minChunkSize = 10
InitialChunkSize == 50
InitialMaxChunkSize == 2000
InitialMinChunkSize == 10
\* if (consecutiveErrors >= 5)
MaxConsecutiveErrors == 5
\* scanDepth: number = 10000
DefaultScanDepth == 10000

\* Bounds of the scan model
\* the highest block number a chain reports
MaxLatestBlock == 350
\* a shallow scan depth, so that fromBlock is not 0
ShallowScanDepth == 30
\* failed requests in a row after which the provider answers no further failure
MaxErrorRun == 7

\* the latest block of a chain on which a scan reaches the chunk size 2000
DeepLatestBlock == 3400
\* the block from which on the provider of the deep scan may rate-limit
RateLimitedFromBlock == 3000

LatestBlocks == {0, 9, 64, 120, 200, MaxLatestBlock}
ScanDepths == {ShallowScanDepth, DefaultScanDepth}

\* Error messages, as sequences of words
MsgRange10 == <<"up", "to", "a", "10", "block", "range">>
MsgRange3 == <<"max", "3", "Block", "Range">>
MsgRange0 == <<"0", "block", "range">>
MsgRangeAfter == <<"block", "range", "10", "exceeded">>
Msg429 == <<"429", "too", "many", "requests">>
MsgComputeUnits == <<"exceeded", "compute", "units", "10", "block", "range">>
MsgRateLimit == <<"rate", "limit">>
MsgTimeout == <<"timeout">>
MsgEmpty == <<>>
ErrorMessages == {MsgRange10, MsgRange3, MsgRange0, MsgRangeAfter, Msg429,
                  MsgComputeUnits, MsgRateLimit, MsgTimeout, MsgEmpty}

\* words made of decimal digits only, and parseInt(word, 10)
DigitWords == {"0", "3", "10", "429"}
ParseInt(w) ==
  CASE w = "0" -> 0
    [] w = "3" -> 3
    [] w = "10" -> 10
    [] w = "429" -> 429

\* the case-insensitive match of a word (flag i of the regular expression)
LowerWord(w) ==
  CASE w = "Block" -> "block"
    [] w = "Range" -> "range"
    [] OTHER -> w

\* errorMessage.match(/(\d+)\s+block\s+range/i): first match, None if there is none
extractMaxBlockRange(msg) ==
  LET hits == {k \in 1..(Len(msg) - 2) :
                 /\ msg[k] \in DigitWords
                 /\ LowerWord(msg[k + 1]) = "block"
                 /\ LowerWord(msg[k + 2]) = "range"}
  IN IF hits = {} THEN None
     ELSE ParseInt(msg[CHOOSE k \in hits : \A j \in hits : k <= j])

\* errorMsg.includes('429') || includes('compute units') || includes('rate limit')
IsRateLimitMessage(msg) ==
  \/ \E k \in 1..Len(msg) : msg[k] = "429"
  \/ \E k \in 1..(Len(msg) - 1) : msg[k] = "compute" /\ msg[k + 1] = "units"
  \/ \E k \in 1..(Len(msg) - 1) : msg[k] = "rate" /\ msg[k + 1] = "limit"

\* the messages that the rate-limit test accepts
RateLimitMessages == {msg \in ErrorMessages : IsRateLimitMessage(msg)}

\* maxRange && maxRange < chunkSize
IsRangeLimit(maxRange, chunk) == maxRange # None /\ maxRange # 0 /\ maxRange < chunk

\* mutant of HalveChunk: no floor
HalveChunk_NoFloor(chunk, minChunk) == chunk \div 2

\* Math.max(minChunkSize, Math.floor(chunkSize / 2))
HalveChunk(chunk, minChunk) == Max(minChunk, chunk \div 2)

\* mutant of GrowChunk: the chunk size grows past maxChunkSize
GrowChunk_Uncapped(chunk, maxChunk, errors) == IF errors = 0 THEN chunk * 2 ELSE chunk

\* mutant of GrowChunk: the cap is the initial maximum, not the current one
GrowChunk_InitialCap(chunk, maxChunk, errors) ==
  IF chunk < InitialMaxChunkSize /\ errors = 0
    THEN Min(chunk * 2, InitialMaxChunkSize) ELSE chunk

\* chunkSize after a successful fetch
GrowChunk(chunk, maxChunk, errors) ==
  IF chunk < maxChunk /\ errors = 0 THEN Min(chunk * 2, maxChunk) ELSE chunk

\* mutant of AdvanceCursor: the last block of the chunk is requested again
AdvanceCursor_Overlap(end) == end

\* currentBlock = end + 1
AdvanceCursor(end) == end + 1

\* const end = Math.min(currentBlock + chunkSize - 1, latestBlock)
ChunkEnd_Unclamped(cur, chunk, latest) == cur + chunk - 1
ChunkEnd(cur, chunk, latest) == Min(cur + chunk - 1, latest)

\* Math.round(x * 100) for x = a / t in IEEE double arithmetic: halves round up,
\* except that a / t * 100 falls just below the half for 14.5, 28.5, 56.5 and 57.5
RoundPercent(a, t) ==
  LET exact == (200 * a + t) \div (2 * t)
      half == (200 * a + t) % (2 * t) = 0
  IN IF half /\ (exact - 1) \in {14, 28, 56, 57} THEN exact - 1 ELSE exact

\* const targetBlocks = latestBlock - fromBlock + 1
TargetBlocks(from, latest) == latest - from + 1

\* const actualBlocksScanned = Math.max(0, Math.min(currentBlock, latestBlock + 1) - fromBlock)
ActualBlocksScanned(cur, from, latest) == Max(0, Min(cur, latest + 1) - from)

\* const coveragePercent = Math.min(100, targetBlocks > 0 ? Math.round(...) : 0)
CoveragePercent(cur, from, latest) ==
  Min(100, IF TargetBlocks(from, latest) > 0
             THEN RoundPercent(ActualBlocksScanned(cur, from, latest),
                               TargetBlocks(from, latest))
             ELSE 0)

\* mutant of FinalDegraded: the flag set during the loop is returned as it is
FinalDegraded_Sticky(degraded, coverage) == degraded

\* degradedMode as returned: cleared when coveragePercent >= 100
FinalDegraded(degraded, coverage) == IF coverage >= 100 THEN FALSE ELSE degraded

\* the statements after the loop: coverage and the final flags
Finish(cur, degraded, limited) ==
  LET coverage == CoveragePercent(cur, fromBlock, latestBlock) IN
  /\ scanPc' = "done"
  /\ coveragePercent' = coverage
  /\ degradedMode' = FinalDegraded(degraded, coverage)
  /\ rateLimited' = IF coverage >= 100 THEN FALSE ELSE limited

InitScan ==
  /\ scanPc = "idle"
  /\ latestBlock = 0
  /\ fromBlock = 0
  /\ chunkSize = InitialChunkSize
  /\ maxChunkSize = InitialMaxChunkSize
  /\ minChunkSize = InitialMinChunkSize
  /\ consecutiveErrors = 0
  /\ rateLimited = FALSE
  /\ degradedMode = FALSE
  /\ currentBlock = 0
  /\ coveragePercent = None
  /\ fetched = {}
  /\ lastRequest = <<>>
  /\ sawRangeLimit = FALSE

\* the operation up to the first log request
ScanStart(latest, scanDepth) ==
  /\ scanPc = "idle"
  /\ latestBlock' = latest
  /\ fromBlock' = Max(0, latest - scanDepth)
  /\ currentBlock' = Max(0, latest - scanDepth)
  /\ scanPc' = "loop"
  /\ UNCHANGED <<chunkSize, maxChunkSize, minChunkSize, consecutiveErrors, rateLimited,
                 degradedMode, coveragePercent, fetched, lastRequest, sawRangeLimit>>
  /\ UNCHANGED outsideScan

\* provider.getLogs resolves for the range [currentBlock, end]
FetchOk ==
  /\ scanPc = "loop"
  /\ LET end == ChunkEnd(currentBlock, chunkSize, latestBlock) IN
     /\ lastRequest' = <<currentBlock, end>>
     /\ fetched' = fetched \cup (currentBlock..end)
     /\ chunkSize' = GrowChunk(chunkSize, maxChunkSize, consecutiveErrors)
     /\ consecutiveErrors' = 0
     /\ currentBlock' = AdvanceCursor(end)
     /\ IF AdvanceCursor(end) <= latestBlock
          THEN UNCHANGED <<scanPc, coveragePercent, degradedMode, rateLimited>>
          ELSE Finish(AdvanceCursor(end), degradedMode, rateLimited)
  /\ UNCHANGED <<latestBlock, fromBlock, maxChunkSize, minChunkSize, sawRangeLimit>>
  /\ UNCHANGED outsideScan

\* provider.getLogs rejects with the message msg
FetchFail(msg) ==
  /\ scanPc = "loop"
  /\ consecutiveErrors < MaxErrorRun
  /\ LET end == ChunkEnd(currentBlock, chunkSize, latestBlock)
         errors == consecutiveErrors + 1
         maxRange == extractMaxBlockRange(msg)
     IN
     /\ lastRequest' = <<currentBlock, end>>
     /\ consecutiveErrors' = errors
     /\ IF IsRangeLimit(maxRange, chunkSize)
          THEN /\ chunkSize' = maxRange
               /\ minChunkSize' = maxRange
               /\ maxChunkSize' = maxRange
               /\ degradedMode' = TRUE
               /\ sawRangeLimit' = TRUE
               /\ UNCHANGED <<scanPc, coveragePercent, rateLimited>>
          ELSE IF IsRateLimitMessage(msg)
          THEN /\ chunkSize' = HalveChunk(chunkSize, minChunkSize)
               /\ rateLimited' = TRUE
               /\ degradedMode' = TRUE
               /\ UNCHANGED <<scanPc, coveragePercent, minChunkSize, maxChunkSize,
                              sawRangeLimit>>
          ELSE IF errors >= MaxConsecutiveErrors
          THEN /\ Finish(currentBlock, TRUE, rateLimited)
               /\ UNCHANGED <<chunkSize, minChunkSize, maxChunkSize, sawRangeLimit>>
          ELSE /\ chunkSize' = HalveChunk(chunkSize, minChunkSize)
               /\ UNCHANGED <<scanPc, coveragePercent, rateLimited, degradedMode,
                              minChunkSize, maxChunkSize, sawRangeLimit>>
  /\ UNCHANGED <<latestBlock, fromBlock, currentBlock, fetched>>
  /\ UNCHANGED outsideScan

NextScan ==
  \/ \E latest \in LatestBlocks, scanDepth \in ScanDepths : ScanStart(latest, scanDepth)
  \/ FetchOk
  \/ \E msg \in ErrorMessages : FetchFail(msg)

(***************************************************************************)
(* scanRecentHolders: chunked log fetch, balance ledger, ranked holder list  *)
(***************************************************************************)
\* const INITIAL_CHUNK_SIZE = 2000
INITIAL_CHUNK_SIZE == 2000
\* if (isLogLimitError && chunkSize > 500)
MinSplitChunkSize == 500
\* scanDepth: number = 50000
HolderScanDepth == 50000
\* (balance * BigInt(10000)) / totalSupplyBigInt, then / 100
PercentScale == 10000

\* Bounds of the holder model
\* the highest block the chain reaches (blocks are mined INITIAL_CHUNK_SIZE at a time)
MaxHead == 2000
\* the number of Transfer logs on the chain
MaxChainLogs == 3

\* '0x0000000000000000000000000000000000000000'
ZeroAddress == "0x00"
\* the account addresses as they appear in the topics of a log ("0xA1" and "0xa1"
\* are two spellings of one account)
TopicAddresses == {"0xa1", "0xA1", "0xa2"}
Accounts == {ToLowerCase(a) : a \in TopicAddresses}
\* a topic that the log does not have (from / to are null)
Null == "null"
\* log.data of a log that carries no amount ('0x'): BigInt(log.data) throws
EmptyData == -1

\* the amounts of the transfers of the ledger model
Amounts == {1, 2}

\* the logs of [start, end] as provider.getLogs returns them
LogsIn(logs, start, end) ==
  SelectSeq(logs, LAMBDA l : start <= l.blockNumber /\ l.blockNumber <= end)

\* Error messages of provider.getLogs, as sequences of words; NoMessage: no message
HMsgLogSize == <<"Log", "response", "size", "exceeded">>
HMsgGetLogs == <<"eth_getLogs", "failed">>
HMsgLimit == <<"rate", "limit">>
HMsgTooMany == <<"too", "many", "requests">>
HMsgTimeout == <<"timeout">>
NoMessage == <<"undefined">>
HolderErrorMessages == {HMsgLogSize, HMsgGetLogs, HMsgLimit, HMsgTooMany, HMsgTimeout,
                        NoMessage}

\* the lower-case words that contain the substring 'log'
WordsWithLog == {"log", "eth_getlogs"}

\* error?.message?.toLowerCase().includes('log') || includes('limit') || includes('too many')
IsLogLimitError(msg) ==
  /\ msg # NoMessage
  /\ \/ \E k \in 1..Len(msg) : ToLowerCase(msg[k]) \in WordsWithLog
     \/ \E k \in 1..Len(msg) : ToLowerCase(msg[k]) = "limit"
     \/ \E k \in 1..(Len(msg) - 1) :
          ToLowerCase(msg[k]) = "too" /\ ToLowerCase(msg[k + 1]) = "many"

\* Map.prototype.has / get / set on a Map held as the sequence of its entries
MapIndex(m, k) ==
  IF \E i \in 1..Len(m) : m[i].address = k
    THEN CHOOSE i \in 1..Len(m) : m[i].address = k
    ELSE 0

\* balances.get(k) || BigInt(0)
MapGetOrZero(m, k) == IF MapIndex(m, k) = 0 THEN 0 ELSE m[MapIndex(m, k)].balance

\* balances.set(k, v): a new key goes to the end, a known key keeps its place
MapSet(m, k, v) ==
  IF MapIndex(m, k) = 0
    THEN Append(m, [address |-> k, balance |-> v])
    ELSE [m EXCEPT ![MapIndex(m, k)].balance = v]

\* from && from !== '0x0000000000000000000000000000000000000000'
IsLedgerAddress(a) == a # Null /\ a # ZeroAddress

\* mutant of ApplyTransfer: the sender is not debited
ApplyTransfer_CreditOnly(m, log) ==
  IF log.data = EmptyData THEN m
  ELSE IF IsLedgerAddress(log.to)
         THEN MapSet(m, ToLowerCase(log.to), MapGetOrZero(m, ToLowerCase(log.to)) + log.data)
         ELSE m

\* the body of the loop over allLogs: one decoded Transfer applied to the ledger
ApplyTransfer(m, log) ==
  IF log.data = EmptyData THEN m
  ELSE LET debited ==
             IF IsLedgerAddress(log.from)
               THEN MapSet(m, ToLowerCase(log.from),
                           MapGetOrZero(m, ToLowerCase(log.from)) - log.data)
               ELSE m
       IN IF IsLedgerAddress(log.to)
            THEN MapSet(debited, ToLowerCase(log.to),
                        MapGetOrZero(debited, ToLowerCase(log.to)) + log.data)
            ELSE debited

\* for (const log of allLogs) { ... }
RECURSIVE BuildLedger(_, _)
BuildLedger(m, logs) ==
  IF logs = <<>> THEN m
  ELSE BuildLedger(ApplyTransfer(m, Head(logs)), Tail(logs))

\* mutant of PositiveBalances: the entries with balance 0 are kept as well
PositiveBalances_NonNegative(m) == SelectSeq(m, LAMBDA e : e.balance >= 0)

\* approximate mode: the entries with a positive balance, in insertion order
PositiveBalances(m) == SelectSeq(m, LAMBDA e : e.balance > 0)

RECURSIVE Pow10(_)
Pow10(n) == IF n = 0 THEN 1 ELSE 10 * Pow10(n - 1)

\* the decimal digit characters
Digit(n) == <<"0", "1", "2", "3", "4", "5", "6", "7", "8", "9">>[n + 1]

\* the quotient floor(r * 10^digits / d) for 0 <= r < d by long division (the BigInt
\* product balance * 10000 does not fit the model checker's integers)
RECURSIVE LongDivision(_, _, _)
LongDivision(r, d, digits) ==
  IF digits = 0 THEN 0
  ELSE ((r * 10) \div d) * Pow10(digits - 1) + LongDivision((r * 10) % d, d, digits - 1)

\* mutant of PercentHundredths: whole percents only
PercentHundredths_Whole(balance, totalSupply) ==
  IF totalSupply > 0 THEN (balance * 100) \div totalSupply ELSE 0

\* Number((balance * BigInt(10000)) / totalSupplyBigInt), 0 when totalSupply is 0:
\* the percentage in hundredths (the code divides this number by 100)
PercentHundredths(balance, totalSupply) ==
  IF totalSupply > 0
    THEN (balance \div totalSupply) * PercentScale
           + LongDivision(balance % totalSupply, totalSupply, 4)
    ELSE 0

\* BigInt.prototype.toString() of a non-negative number: its decimal digits
RECURSIVE BalanceToString(_)
BalanceToString(n) ==
  IF n < 10 THEN <<Digit(n)>> ELSE Append(BalanceToString(n \div 10), Digit(n % 10))

\* mutant of InsertHolder: an entry goes before the entries of equal balance
InsertHolder_BeforeEqual(sorted, h) ==
  LET before == SelectSeq(sorted, LAMBDA x : x.balance > h.balance)
      after == SelectSeq(sorted, LAMBDA x : x.balance <= h.balance)
  IN before \o <<h>> \o after

\* one step of the stable sort with the comparator of the code (descending balance,
\* 0 for equal balances): h goes behind every entry that is not smaller
InsertHolder(sorted, h) ==
  LET before == SelectSeq(sorted, LAMBDA x : x.balance >= h.balance)
      after == SelectSeq(sorted, LAMBDA x : x.balance < h.balance)
  IN before \o <<h>> \o after

\* Array.prototype.sort (stable) over the entries in insertion order
RECURSIVE SortHolders(_, _)
SortHolders(sorted, rest) ==
  IF rest = <<>> THEN sorted
  ELSE SortHolders(InsertHolder(sorted, Head(rest)), Tail(rest))

\* sortedHolders.map(...): address, balance.toString(), percentage
HolderRecords(m, totalSupply) ==
  LET sorted == SortHolders(<<>>, PositiveBalances(m)) IN
  [i \in 1..Len(sorted) |->
     [address |-> sorted[i].address,
      balance |-> BalanceToString(sorted[i].balance),
      percentage |-> PercentHundredths(sorted[i].balance, totalSupply)]]

\* if (failedChunks > successfulChunks || holders.length === 0) completeness = 'partial'
Completeness(failed, successful, found) ==
  IF failed > successful \/ found = 0 THEN "partial" ELSE "recent"

InitHolder ==
  /\ hPc = "chain"
  /\ head = 0
  /\ hold = [a \in Accounts |-> 0]
  /\ supply = 0
  /\ chainLogs = <<>>
  /\ hLatestBlock = 0
  /\ hFromBlock = 0
  /\ loopStart = 0
  /\ stack = <<>>
  /\ allLogs = <<>>
  /\ successfulChunks = 0
  /\ failedChunks = 0
  /\ balances = <<>>
  /\ holders = <<>>
  /\ completeness = "none"

scanLocals == <<hLatestBlock, hFromBlock, loopStart, stack, allLogs, successfulChunks,
                failedChunks, balances, holders, completeness>>

\* the chain: blocks are mined
Mine ==
  /\ hPc = "chain"
  /\ head + INITIAL_CHUNK_SIZE <= MaxHead
  /\ head' = head + INITIAL_CHUNK_SIZE
  /\ UNCHANGED <<hPc, hold, supply, chainLogs, scanLocals>>
  /\ UNCHANGED outsideHolder

\* the chain: the token emits Transfer(from, to, amount) in the latest block; from the
\* zero address it is a mint, to the zero address a burn
Transfer(from, to, amount) ==
  /\ hPc = "chain"
  /\ Len(chainLogs) < MaxChainLogs
  /\ from # ZeroAddress => hold[ToLowerCase(from)] >= amount
  /\ chainLogs' = Append(chainLogs, [from |-> from, to |-> to, data |-> amount,
                                     blockNumber |-> head])
  /\ LET debited == IF from = ZeroAddress THEN hold
                    ELSE [hold EXCEPT ![ToLowerCase(from)] = @ - amount]
     IN hold' = IF to = ZeroAddress THEN debited
                ELSE [debited EXCEPT ![ToLowerCase(to)] = @ + amount]
  /\ supply' = supply + (IF from = ZeroAddress THEN amount ELSE 0)
                      - (IF to = ZeroAddress THEN amount ELSE 0)
  /\ UNCHANGED <<hPc, head, scanLocals>>
  /\ UNCHANGED outsideHolder

\* the chain: the contract emits a log with the Transfer topic that is not an ERC-20
\* transfer and moves no balance: with all three parameters indexed and no data (as
\* ERC-721 emits it), or with no parameter indexed and everything in the data
ForeignLog(indexed) ==
  /\ hPc = "chain"
  /\ Len(chainLogs) < MaxChainLogs
  /\ chainLogs' = Append(chainLogs,
                         IF indexed
                           THEN [from |-> "0xa1", to |-> "0xa2", data |-> EmptyData,
                                 blockNumber |-> head]
                           ELSE [from |-> Null, to |-> Null, data |-> 1,
                                 blockNumber |-> head])
  /\ UNCHANGED <<hPc, head, hold, supply, scanLocals>>
  /\ UNCHANGED outsideHolder

\* the call of fetchChunkWithRetry for the initial chunk that starts at start
InitialChunk(start, latest) ==
  [start |-> start, end |-> Min(start + INITIAL_CHUNK_SIZE - 1, latest),
   chunkSize |-> INITIAL_CHUNK_SIZE]

\* the statements after the fetch loop, up to the return
FinishHolderScan(logs, successful, failed) ==
  LET ledger == BuildLedger(<<>>, logs)
      records == HolderRecords(ledger, supply)
  IN /\ hPc' = "done"
     /\ balances' = ledger
     /\ holders' = records
     /\ completeness' = Completeness(failed, successful, Len(records))
     /\ UNCHANGED loopStart

\* a call of fetchChunkWithRetry has returned and rest are the pending ones: the next
\* pending call runs, or the loop goes to the next initial chunk, or the scan finishes
Continue(rest, logs, successful, failed) ==
  /\ allLogs' = logs
  /\ successfulChunks' = successful
  /\ failedChunks' = failed
  /\ IF rest # <<>>
       THEN /\ stack' = rest
            /\ UNCHANGED <<hPc, loopStart, balances, holders, completeness>>
       ELSE IF loopStart + INITIAL_CHUNK_SIZE <= hLatestBlock
       THEN /\ loopStart' = loopStart + INITIAL_CHUNK_SIZE
            /\ stack' = <<InitialChunk(loopStart + INITIAL_CHUNK_SIZE, hLatestBlock)>>
            /\ UNCHANGED <<hPc, balances, holders, completeness>>
       ELSE /\ stack' = <<>>
            /\ FinishHolderScan(logs, successful, failed)

\* scanRecentHolders up to the first getLogs (totalSupply is the token's supply)
HolderScanStart ==
  /\ hPc = "chain"
  /\ hPc' = "fetch"
  /\ hLatestBlock' = head
  /\ hFromBlock' = Max(0, head - HolderScanDepth)
  /\ loopStart' = Max(0, head - HolderScanDepth)
  /\ stack' = <<InitialChunk(Max(0, head - HolderScanDepth), head)>>
  /\ UNCHANGED <<head, hold, supply, chainLogs, allLogs, successfulChunks, failedChunks,
                 balances, holders, completeness>>
  /\ UNCHANGED outsideHolder

\* provider.getLogs resolves for the running call of fetchChunkWithRetry
ChunkOk ==
  /\ hPc = "fetch"
  /\ LET call == Head(stack) IN
     Continue(Tail(stack), allLogs \o LogsIn(chainLogs, call.start, call.end),
              successfulChunks + 1, failedChunks)
  /\ UNCHANGED <<head, hold, supply, chainLogs, hLatestBlock, hFromBlock>>
  /\ UNCHANGED outsideHolder

\* mutant of SplitChunk: the second half starts at mid
SplitChunk_Overlap(call) ==
  LET mid == (call.start + call.end) \div 2
  IN << [start |-> call.start, end |-> mid, chunkSize |-> call.chunkSize \div 2],
        [start |-> mid, end |-> call.end, chunkSize |-> call.chunkSize \div 2] >>

\* the two recursive calls of a split: [start, mid] and [mid + 1, end], chunkSize / 2
SplitChunk(call) ==
  LET mid == (call.start + call.end) \div 2
  IN << [start |-> call.start, end |-> mid, chunkSize |-> call.chunkSize \div 2],
        [start |-> mid + 1, end |-> call.end, chunkSize |-> call.chunkSize \div 2] >>

\* provider.getLogs rejects with the message msg: the range is split in two halves, or
\* the chunk has failed for good
ChunkFail(msg) ==
  /\ hPc = "fetch"
  /\ LET call == Head(stack)
     IN IF IsLogLimitError(msg) /\ call.chunkSize > MinSplitChunkSize
          THEN /\ stack' = SplitChunk(call) \o Tail(stack)
               /\ UNCHANGED <<hPc, loopStart, allLogs, successfulChunks, failedChunks,
                              balances, holders, completeness>>
          ELSE Continue(Tail(stack), allLogs, successfulChunks, failedChunks + 1)
  /\ UNCHANGED <<head, hold, supply, chainLogs, hLatestBlock, hFromBlock>>
  /\ UNCHANGED outsideHolder

\* the parties of the transfers of the ledger model: two accounts, and the zero
\* address of mints and burns
LedgerAddresses == {"0xa1", "0xa2", ZeroAddress}

\* scans of a token with mints, burns and transfers; a failed chunk is not split
NextHolderLedger ==
  \/ Mine
  \/ \E from \in LedgerAddresses, to \in LedgerAddresses, amount \in Amounts :
       Transfer(from, to, amount)
  \/ HolderScanStart
  \/ ChunkOk
  \/ ChunkFail(HMsgTimeout)

\* the whole supply of the token of the end-to-end scenario
MintedSupply == 1000000

\* scans of a token whose only transfers are mints of the whole supply to one account
\* (in either spelling), with every kind of failure of getLogs
NextHolderFetch ==
  \/ Mine
  \/ \E to \in {"0xa1", "0xA1"} : Transfer(ZeroAddress, to, MintedSupply)
  \/ \E indexed \in BOOLEAN : ForeignLog(indexed)
  \/ HolderScanStart
  \/ ChunkOk
  \/ \E msg \in HolderErrorMessages : ChunkFail(msg)

(***************************************************************************)
(* detectTradingTax: probes of the fee functions and the resulting state     *)
(***************************************************************************)
\* const feeVariants
FeeVariants ==
  << [name |-> "buyFees", isBuy |-> "true"],
     [name |-> "buyFee", isBuy |-> "true"],
     [name |-> "_buyFee", isBuy |-> "true"],
     [name |-> "sellFees", isBuy |-> "false"],
     [name |-> "sellFee", isBuy |-> "false"],
     [name |-> "_sellFee", isBuy |-> "false"],
     [name |-> "_taxFee", isBuy |-> "null"],
     [name |-> "taxFee", isBuy |-> "null"],
     [name |-> "_totalTax", isBuy |-> "null"],
     [name |-> "totalFees", isBuy |-> "null"] >>

\* Bounds of the tax model
\* the number of calls of detectTradingTax
MaxTaxRuns == 2
\* the number of fee functions a contract has
MaxFeeFunctions == 2

\* a fee function the contract does not have
Missing == -1
\* buyFeeRaw / sellFeeRaw = null
NullFee == -1
\* the values the fee functions of the contracts return
FeeInputs == {0, 500}

\* the contracts: which fee functions exist and what they return
ContractInputs ==
  {f \in [1..Len(FeeVariants) -> FeeInputs \cup {Missing}] :
     Cardinality({k \in 1..Len(FeeVariants) : f[k] # Missing}) <= MaxFeeFunctions}

NoFeeFunctions == [k \in 1..Len(FeeVariants) |-> Missing]

NoTaxResult == [state |-> "none", buyTax |-> 0, sellTax |-> 0, hasTax |-> FALSE]

\* normalizeFee, in hundredths of a percent (exact for the values of FeeInputs)
normalizeFee(rawBigInt) ==
  IF rawBigInt = NullFee THEN 0
  ELSE IF rawBigInt = 0 THEN 0
  ELSE IF rawBigInt >= 1000000 THEN rawBigInt \div 10000
  ELSE IF rawBigInt > 10000 THEN rawBigInt \div 100
  ELSE IF rawBigInt > 1000 THEN rawBigInt
  ELSE IF rawBigInt > 100 THEN rawBigInt
  ELSE rawBigInt * 100

\* Stage 3 and Stage 4: the value the operation returns
TaxResult(read, buyRaw, sellRaw) ==
  IF ~read
    THEN [state |-> "NoTax", buyTax |-> 0, sellTax |-> 0, hasTax |-> FALSE]
  ELSE IF normalizeFee(buyRaw) = 0 /\ normalizeFee(sellRaw) = 0
    THEN [state |-> "TaxZero", buyTax |-> 0, sellTax |-> 0, hasTax |-> FALSE]
  ELSE [state |-> "TaxKnown", buyTax |-> normalizeFee(buyRaw),
        sellTax |-> normalizeFee(sellRaw), hasTax |-> TRUE]

\* the catch around executeWithFailover
TaxUnknownResult == [state |-> "TaxUnknown", buyTax |-> 0, sellTax |-> 0, hasTax |-> FALSE]

InitTax ==
  /\ tPc = "idle"
  /\ tChain = "ethereum"
  /\ feeFunctions = NoFeeFunctions
  /\ variantIdx = 0
  /\ buyFeeRaw = NullFee
  /\ sellFeeRaw = NullFee
  /\ readSucceeded = FALSE
  /\ providerErrors = FALSE
  /\ taxResult = NoTaxResult
  /\ taxRuns = 0

\* a call of detectTradingTax(address, chainId); contract is what is deployed at the
\* address, the same at every call.  executeWithFailover throws when the chain has no
\* configuration, and else runs the operation (which catches every error of its probes
\* and so returns at its first invocation, after which the success is reported: on a
\* pool of healthy providers without failures that changes nothing)
DetectStart(chainId, contract) ==
  /\ tPc \in {"idle", "done"}
  /\ taxRuns < MaxTaxRuns
  /\ taxRuns > 0 => contract = feeFunctions
  /\ taxRuns' = taxRuns + 1
  /\ tChain' = chainId
  /\ feeFunctions' = contract
  /\ buyFeeRaw' = NullFee
  /\ sellFeeRaw' = NullFee
  /\ readSucceeded' = FALSE
  /\ providerErrors' = FALSE
  /\ IF ~HasConfig(chainId)
       THEN /\ tPc' = "done"
            /\ variantIdx' = 0
            /\ taxResult' = TaxUnknownResult
       ELSE /\ tPc' = "probe"
            /\ variantIdx' = 1
            /\ taxResult' = NoTaxResult
  /\ UNCHANGED outsideTax

\* the end of one pass of the loop over feeVariants with the locals as given: the loop
\* goes on, or it ends (break, or no variant left) and the operation returns
ProbeDone(read, buyRaw, sellRaw) ==
  /\ readSucceeded' = read
  /\ buyFeeRaw' = buyRaw
  /\ sellFeeRaw' = sellRaw
  /\ IF (buyRaw # NullFee /\ sellRaw # NullFee) \/ variantIdx = Len(FeeVariants)
       THEN /\ tPc' = "done"
            /\ taxResult' = TaxResult(read, buyRaw, sellRaw)
            /\ UNCHANGED variantIdx
       ELSE /\ variantIdx' = variantIdx + 1
            /\ UNCHANGED <<tPc, taxResult>>

\* the call of the fee function returns its value
ProbeRead ==
  /\ tPc = "probe"
  /\ feeFunctions[variantIdx] # Missing
  /\ LET valueBigInt == feeFunctions[variantIdx]
         isBuy == FeeVariants[variantIdx].isBuy
     IN IF isBuy = "true" /\ buyFeeRaw = NullFee
          THEN ProbeDone(TRUE, valueBigInt, sellFeeRaw)
        ELSE IF isBuy = "false" /\ sellFeeRaw = NullFee
          THEN ProbeDone(TRUE, buyFeeRaw, valueBigInt)
        ELSE IF isBuy = "null" /\ buyFeeRaw = NullFee /\ sellFeeRaw = NullFee
          THEN ProbeDone(TRUE, valueBigInt, valueBigInt)
        ELSE ProbeDone(TRUE, buyFeeRaw, sellFeeRaw)
  /\ UNCHANGED <<tChain, feeFunctions, providerErrors, taxRuns>>
  /\ UNCHANGED outsideTax

\* the call reverts because the contract has no such function: caught, next variant
ProbeMissing ==
  /\ tPc = "probe"
  /\ feeFunctions[variantIdx] = Missing
  /\ ProbeDone(readSucceeded, buyFeeRaw, sellFeeRaw)
  /\ UNCHANGED <<tChain, feeFunctions, providerErrors, taxRuns>>
  /\ UNCHANGED outsideTax

\* the call fails in the provider (network error, timeout, rate limit), whatever the
\* contract has: caught by the same catch, next variant
ProbeProviderError ==
  /\ tPc = "probe"
  /\ providerErrors' = TRUE
  /\ ProbeDone(readSucceeded, buyFeeRaw, sellFeeRaw)
  /\ UNCHANGED <<tChain, feeFunctions, taxRuns>>
  /\ UNCHANGED outsideTax

NextTax ==
  \/ \E chainId \in ChainInputs, contract \in ContractInputs : DetectStart(chainId, contract)
  \/ ProbeRead
  \/ ProbeMissing
  \/ ProbeProviderError


(***************************************************************************)
(* liveTransactionScanner: decodeEventLogs and determineTransactionType      *)
(***************************************************************************)
\* Bounds of the decoder model
\* the number of logs of a batch
MaxBatch == 2
\* the number of decoded events passed to determineTransactionType
MaxEvents == 3

\* the keys of EVENT_TOPICS; a log's topics[0] is the topic of one of them, or another
\* topic, or missing (a log without topics)
EventNames == {"Transfer", "Approval", "Swap", "Mint", "Burn"}
OtherTopic == "Sync"
Topics0 == EventNames \cup {OtherTopic}

\* the contract a log comes from: the token (in two spellings) or another contract
LogAddresses == {"0xT1", "0xd2"}
TokenAddressInputs == {"0xt1"}

\* log.data: 32 bytes that hold the number 5, or '0x' (no data)
DataInputs == {5, EmptyData}

\* the logs: address, topics[0], the number of topics after it (topics[1] is the
\* address 0xa1 and topics[2] the address 0xa2, left-padded to 32 bytes), and data
LogInputs ==
  [address : LogAddresses, topic0 : Topics0, indexed : 0..2, data : DataInputs]

\* the address in topics[k] of a log, after '0x' + topics[k].slice(26)
TopicAddress(k) == IF k = 1 THEN "0xa1" ELSE "0xa2"

\* ethers.getAddress: the address in its checksum spelling
GetAddress(a) ==
  CASE a = "0xa1" -> "0xA1"
    [] OTHER -> a

\* sequences over S of length at most n
SeqUpTo(S, n) == UNION {[1..k -> S] : k \in 0..n}

\* the number of indexed parameters the decoder reads from the topics of an event
IndexedRead(name) == IF name \in {"Transfer", "Approval"} THEN 2 ELSE 1

\* the statements inside the try block for one log: the sequence of the event that is
\* pushed, empty when nothing is pushed; threw tells whether the catch block was entered
DecodeOne(log) ==
  IF log.topic0 \notin {"Transfer", "Approval", "Mint", "Burn"}
    THEN [pushed |-> <<>>, threw |-> FALSE]
  ELSE IF log.data = EmptyData \/ log.indexed < IndexedRead(log.topic0)
    THEN [pushed |-> <<>>, threw |-> TRUE]
  ELSE LET value == BalanceToString(log.data)
           first == GetAddress(TopicAddress(1))
           second == GetAddress(TopicAddress(2))
       IN [pushed |->
             << [eventName |-> log.topic0,
                 args |-> CASE log.topic0 = "Transfer" ->
                                 <<"from", first, "to", second, "value", value>>
                            [] log.topic0 = "Approval" ->
                                 <<"owner", first, "spender", second, "value", value>>
                            [] log.topic0 = "Mint" -> <<"to", first, "amount", value>>
                            [] log.topic0 = "Burn" -> <<"from", first, "amount", value>>] >>,
           threw |-> FALSE]

\* mutant of decodeEventLogs: the first log that fails to decode ends the batch
RECURSIVE decodeEventLogs_AbortOnFailure(_, _)
decodeEventLogs_AbortOnFailure(logs, token) ==
  IF logs = <<>> THEN <<>>
  ELSE IF ToLowerCase(Head(logs).address) # ToLowerCase(token)
    THEN decodeEventLogs_AbortOnFailure(Tail(logs), token)
  ELSE IF DecodeOne(Head(logs)).threw THEN <<>>
  ELSE DecodeOne(Head(logs)).pushed \o decodeEventLogs_AbortOnFailure(Tail(logs), token)

\* function decodeEventLogs(logs, tokenAddress)
RECURSIVE decodeEventLogs(_, _)
decodeEventLogs(logs, token) ==
  IF logs = <<>> THEN <<>>
  ELSE IF ToLowerCase(Head(logs).address) # ToLowerCase(token)
    THEN decodeEventLogs(Tail(logs), token)
  ELSE DecodeOne(Head(logs)).pushed \o decodeEventLogs(Tail(logs), token)

\* logs.map(log => log.eventName).includes(name)
IncludesEvent(logs, name) == \E i \in 1..Len(logs) : logs[i].eventName = name

\* mutant of determineTransactionType: the first event decides
determineTransactionType_FirstEvent(logs) ==
  IF Len(logs) = 0 THEN "other"
  ELSE CASE logs[1].eventName = "Swap" -> "swap"
         [] logs[1].eventName = "Mint" -> "mint"
         [] logs[1].eventName = "Burn" -> "burn"
         [] logs[1].eventName = "Approval" -> "approve"
         [] logs[1].eventName = "Transfer" -> "transfer"
         [] OTHER -> "other"

\* function determineTransactionType(logs)
determineTransactionType(logs) ==
  IF Len(logs) = 0 THEN "other"
  ELSE IF IncludesEvent(logs, "Swap") THEN "swap"
  ELSE IF IncludesEvent(logs, "Mint") THEN "mint"
  ELSE IF IncludesEvent(logs, "Burn") THEN "burn"
  ELSE IF IncludesEvent(logs, "Approval") THEN "approve"
  ELSE IF IncludesEvent(logs, "Transfer") THEN "transfer"
  ELSE "other"

\* the decoded events passed to determineTransactionType: any event names
DecodedLogInputs == [eventName : Topics0, args : {<<>>}]

InitLive ==
  /\ lPc = "idle"
  /\ txLogs = <<>>
  /\ tokenAddress = ""
  /\ decodedLogs = <<>>
  /\ txType = "none"

\* decodeEventLogs(txLogs, tokenAddress) followed by determineTransactionType(decodedLogs),
\* as scanLiveTransactions calls them for the logs of one transaction
DecodeTransaction(logs, token) ==
  /\ lPc = "idle"
  /\ lPc' = "decodeEventLogs"
  /\ txLogs' = logs
  /\ tokenAddress' = token
  /\ decodedLogs' = decodeEventLogs(logs, token)
  /\ txType' = determineTransactionType(decodeEventLogs(logs, token))
  /\ UNCHANGED outsideLive

\* determineTransactionType(logs) for any list of decoded events
DetermineType(logs) ==
  /\ lPc = "idle"
  /\ lPc' = "determineTransactionType"
  /\ decodedLogs' = logs
  /\ txType' = determineTransactionType(logs)
  /\ UNCHANGED <<txLogs, tokenAddress>>
  /\ UNCHANGED outsideLive

NextLive ==
  \/ /\ lPc = "idle"
     /\ \E logs \in SeqUpTo(LogInputs, MaxBatch), token \in TokenAddressInputs :
          DecodeTransaction(logs, token)
  \/ /\ lPc = "idle"
     /\ \E logs \in SeqUpTo(DecodedLogInputs, MaxEvents) : DetermineType(logs)


(***************************************************************************)
(* analyzeTokenFlow and calculateFlowForPeriod (the token flow analyzer)    *)
(***************************************************************************)
\* transfers fetchTransferEvents returned to one analysis
MaxTransfers == 2
\* latestBlockData.timestamp, in seconds
CurrentTimestamp == 200000
Hour == 60 * 60
\* hours between a transfer's block and the latest block: inside the 4h window,
\* inside the 12h one only, inside the 24h one only, and before all of them (the
\* block range of the fetch is an estimate of 24 hours)
AgeHours == {2, 8, 20, 30}
\* sender and receiver: transfers between two accounts, a mint and a burn
FlowParties ==
  {<<"0xa1", "0xa2">>, <<"0xa2", "0xa1">>, <<ZeroAddress, "0xa1">>, <<"0xa1", ZeroAddress>>}
FlowValues == {1, 1500}
\* a TransferEvent; blockNumber is not read by calculateFlowForPeriod
TransferInputs ==
  {[from |-> p[1], to |-> p[2], value |-> v, timestamp |-> CurrentTimestamp - h * Hour] :
     p \in FlowParties, v \in FlowValues, h \in AgeHours}
DecimalsInputs == {0, 3}
PriceInputs == {None, 2}

\* the last k decimal digits of n, most significant first
RECURSIVE FractionDigits(_, _)
FractionDigits(n, k) ==
  IF k = 0 THEN <<>> ELSE Append(FractionDigits(n \div 10, k - 1), Digit(n % 10))

\* trailing zeros of the decimal component are trimmed, leaving at least one digit
RECURSIVE TrimTrailingZeros(_)
TrimTrailingZeros(s) ==
  IF Len(s) > 1 /\ s[Len(s)] = "0" THEN TrimTrailingZeros(SubSeq(s, 1, Len(s) - 1)) ELSE s

\* ethers.formatUnits(value, decimals): the decimal string of value / 10^decimals,
\* as a sequence of characters; a whole value has no decimal point when decimals is 0
FormatUnits(value, decimals) ==
  LET negative == IF value < 0 THEN <<"-">> ELSE <<>>
      val == IF value < 0 THEN -value ELSE value
  IN IF decimals = 0
       THEN negative \o BalanceToString(val)
       ELSE negative \o BalanceToString(val \div Pow10(decimals)) \o <<".">>
              \o TrimTrailingZeros(FractionDigits(val % Pow10(decimals), decimals))

DigitValue(c) == CHOOSE n \in 0..9 : Digit(n) = c

RECURSIVE DigitsValue(_)
DigitsValue(s) ==
  IF s = <<>> THEN 0
  ELSE 10 * DigitsValue(SubSeq(s, 1, Len(s) - 1)) + DigitValue(s[Len(s)])

\* parseFloat(str) for a decimal string of at most `decimals` fraction digits; the
\* number is held in units of 10^-decimals, which represents it exactly
ParseFloat(str, decimals) ==
  LET neg == str # <<>> /\ str[1] = "-"
      body == IF neg THEN Tail(str) ELSE str
      dots == {i \in 1..Len(body) : body[i] = "."}
      dot == IF dots = {} THEN Len(body) + 1 ELSE CHOOSE i \in dots : TRUE
      whole == SubSeq(body, 1, dot - 1)
      frac == SubSeq(body, dot + 1, Len(body))
      mag == DigitsValue(whole) * Pow10(decimals)
               + DigitsValue(frac) * Pow10(decimals - Len(frac))
  IN IF neg THEN -mag ELSE mag

\* the test `from === ZERO_ADDRESS || to === ZERO_ADDRESS`
IsMintOrBurn_FromOnly(transfer) == transfer.from = ZeroAddress
IsMintOrBurn(transfer) == transfer.from = ZeroAddress \/ transfer.to = ZeroAddress

\* the loop over periodTransfers
RECURSIVE SumFlows(_)
SumFlows(periodTransfers) ==
  IF periodTransfers = <<>>
    THEN [totalInflow |-> 0, totalOutflow |-> 0, uniqueAddresses |-> {}]
    ELSE LET acc == SumFlows(SubSeq(periodTransfers, 1, Len(periodTransfers) - 1))
             transfer == periodTransfers[Len(periodTransfers)]
         IN IF IsMintOrBurn(transfer) THEN acc
            ELSE [totalInflow |-> acc.totalInflow + transfer.value,
                  totalOutflow |-> acc.totalOutflow + transfer.value,
                  uniqueAddresses |-> acc.uniqueAddresses
                     \cup {ToLowerCase(transfer.from), ToLowerCase(transfer.to)}]

\* `if (price)`: undefined and 0 are falsy
HasPrice(price) == price # None /\ price # 0

calculateFlowForPeriod(ts, cutoffTimestamp, decimals, price) ==
  LET periodTransfers == SelectSeq(ts, LAMBDA t : t.timestamp >= cutoffTimestamp)
      sums == SumFlows(periodTransfers)
      inflowFormatted == FormatUnits(sums.totalInflow, decimals)
      outflowFormatted == FormatUnits(sums.totalOutflow, decimals)
      netFlowFormatted == FormatUnits(sums.totalInflow - sums.totalOutflow, decimals)
  IN IF Len(periodTransfers) = 0
       THEN [inflow |-> <<"0">>, outflow |-> <<"0">>, netFlow |-> <<"0">>,
             inflowUSD |-> 0, outflowUSD |-> 0, netFlowUSD |-> 0,
             transferCount |-> 0, uniqueAddresses |-> 0]
       ELSE [inflow |-> inflowFormatted,
             outflow |-> outflowFormatted,
             netFlow |-> netFlowFormatted,
             inflowUSD |-> IF HasPrice(price)
                             THEN ParseFloat(inflowFormatted, decimals) * price ELSE None,
             outflowUSD |-> IF HasPrice(price)
                              THEN ParseFloat(outflowFormatted, decimals) * price ELSE None,
             netFlowUSD |-> IF HasPrice(price)
                              THEN ParseFloat(netFlowFormatted, decimals) * price ELSE None,
             transferCount |-> Len(periodTransfers),
             uniqueAddresses |-> Cardinality(sums.uniqueAddresses)]

InitFlow ==
  /\ fPc = "idle"
  /\ transfers = <<>>
  /\ flowDecimals = 0
  /\ currentPrice = None
  /\ flowMetrics = [period24h |-> None, period12h |-> None, period4h |-> None]

\* analyzeTokenFlow, from the return of fetchTransferEvents to its own return
AnalyzeTokenFlow(ts, decimals, price) ==
  /\ fPc = "idle"
  /\ fPc' = "done"
  /\ transfers' = ts
  /\ flowDecimals' = decimals
  /\ currentPrice' = price
  /\ flowMetrics' =
       [period24h |-> calculateFlowForPeriod(ts, CurrentTimestamp - 24 * Hour, decimals, price),
        period12h |-> calculateFlowForPeriod(ts, CurrentTimestamp - 12 * Hour, decimals, price),
        period4h |-> calculateFlowForPeriod(ts, CurrentTimestamp - 4 * Hour, decimals, price)]
  /\ UNCHANGED outsideFlow

NextFlow ==
  /\ fPc = "idle"
  /\ \E ts \in SeqUpTo(TransferInputs, MaxTransfers), decimals \in DecimalsInputs,
        price \in PriceInputs : AnalyzeTokenFlow(ts, decimals, price)


(***************************************************************************)
(* The ranking of scanDAppActivity: unique transactions grouped by the      *)
(* contract they were sent to                                               *)
(***************************************************************************)
\* most unique transaction hashes among the logs of one scan
MaxHashes == 105
\* `.slice(0, 100)` of the hashes and `.slice(0, 10)` of the sorted activities
MaxProcessedHashes == 100
TopActivities == 10
\* hashes whose lookup may come back without a transaction, without a receipt,
\* without a `to` (contract creation), or throw: all four skip the hash
SkipCandidates == {2, 3, 99}
\* unique hashes of a scan: a few, exactly the cap, more than the cap
HashCounts == {3, MaxProcessedHashes, MaxHashes}
\* Transfer events emitted by each transaction
LogsPerTxInputs == {1, 2}
\* the contract transaction k was sent to: always the same one; contract j for j
\* transactions in a row (1, 2, 2, 3, 3, 3, ...); or twelve contracts in turn
TxToPatterns == {"single", "triangular", "dozen"}

\* an address is a number and the case it is written in; tx.to is checksummed
ChecksumAddress(j) == <<j, "checksum">>
LowerAddress(a) == <<a[1], "lower">>

TxTo(pattern, k) ==
  IF pattern = "single" THEN ChecksumAddress(1)
  ELSE IF pattern = "dozen" THEN ChecksumAddress(1 + (k % 12))
  ELSE ChecksumAddress(CHOOSE j \in 1..MaxHashes :
                         /\ (j * (j + 1)) \div 2 >= k
                         /\ ((j - 1) * j) \div 2 < k)

\* the logs of n transactions in block order, perTx logs each
LogHashes(n, perTx) == [i \in 1..(n * perTx) |-> 1 + ((i - 1) \div perTx)]

\* Array.from(new Set(hashes)): the first occurrences, in order
UniqueInOrder(hashes) ==
  LET firsts == {i \in 1..Len(hashes) : \A j \in 1..(i - 1) : hashes[j] # hashes[i]}
      nth(k) == CHOOSE i \in firsts : Cardinality({j \in firsts : j < i}) = k - 1
  IN [k \in 1..Cardinality(firsts) |-> hashes[nth(k)]]

SliceHashes_All(list) == list
SliceHashes(list) == SubSeq(list, 1, Min(MaxProcessedHashes, Len(list)))

SliceTop_All(list) == list
SliceTop(list) == SubSeq(list, 1, Min(TopActivities, Len(list)))

\* one step of the stable sort with the comparator b.txnCount - a.txnCount
InsertActivity_Ascending(sorted, a) ==
  LET before == SelectSeq(sorted, LAMBDA x : x.txnCount <= a.txnCount)
      after == SelectSeq(sorted, LAMBDA x : x.txnCount > a.txnCount)
  IN before \o <<a>> \o after

InsertActivity(sorted, a) ==
  LET before == SelectSeq(sorted, LAMBDA x : x.txnCount >= a.txnCount)
      after == SelectSeq(sorted, LAMBDA x : x.txnCount < a.txnCount)
  IN before \o <<a>> \o after

RECURSIVE SortActivities(_, _)
SortActivities(sorted, rest) ==
  IF rest = <<>> THEN sorted
  ELSE SortActivities(InsertActivity(sorted, Head(rest)), Tail(rest))

\* entries -> map -> sort -> slice -> map; gasSpent and contractName are carried
\* along by the code and enter neither the order nor the ranks
RankActivities(interactions) ==
  LET mapped == [i \in 1..Len(interactions) |->
                   [rank |-> 0,
                    contractAddress |-> interactions[i].address,
                    txnCount |-> interactions[i].txnCount]]
      top == SliceTop(SortActivities(<<>>, mapped))
  IN [i \in 1..Len(top) |-> [top[i] EXCEPT !.rank = i]]

\* contractInteractions after txHash was added to the entry of contractAddr
AddInteraction(interactions, contractAddr, txHash) ==
  LET with == IF \E i \in 1..Len(interactions) : interactions[i].address = contractAddr
                THEN interactions
                ELSE Append(interactions,
                            [address |-> contractAddr, txnCount |-> 0, txHashes |-> {}])
  IN [i \in 1..Len(with) |->
        IF with[i].address = contractAddr
          THEN [with[i] EXCEPT !.txHashes = @ \cup {txHash},
                               !.txnCount = Cardinality(with[i].txHashes \cup {txHash})]
          ELSE with[i]]

InitRank ==
  /\ rPc = "idle"
  /\ logHashes = <<>>
  /\ txTo = "single"
  /\ txHashList = <<>>
  /\ hashIdx = 1
  /\ contractInteractions = <<>>
  /\ processedCount = 0
  /\ activities = <<>>

\* the chunk loop has ended with the logs of n transactions
RankStart(n, perTx, pattern) ==
  /\ rPc = "idle"
  /\ rPc' = "loop"
  /\ logHashes' = LogHashes(n, perTx)
  /\ txTo' = pattern
  /\ txHashList' = SliceHashes(UniqueInOrder(LogHashes(n, perTx)))
  /\ UNCHANGED <<hashIdx, contractInteractions, processedCount, activities>>
  /\ UNCHANGED outsideRank

\* one iteration of the for loop whose lookups return a transaction with a `to`
ProcessHash ==
  /\ rPc = "loop"
  /\ hashIdx <= Len(txHashList)
  /\ LET txHash == txHashList[hashIdx]
         contractAddr == LowerAddress(TxTo(txTo, txHash))
     IN contractInteractions' = AddInteraction(contractInteractions, contractAddr, txHash)
  /\ processedCount' = processedCount + 1
  /\ hashIdx' = hashIdx + 1
  /\ UNCHANGED <<rPc, logHashes, txTo, txHashList, activities>>
  /\ UNCHANGED outsideRank

\* one iteration that ends in `continue`: !tx, !receipt, !tx.to, or the catch block
SkipHash ==
  /\ rPc = "loop"
  /\ hashIdx <= Len(txHashList)
  /\ txHashList[hashIdx] \in SkipCandidates
  /\ hashIdx' = hashIdx + 1
  /\ UNCHANGED <<rPc, logHashes, txTo, txHashList, contractInteractions, processedCount,
                 activities>>
  /\ UNCHANGED outsideRank

\* after the loop: the activities are built, sorted, cut and ranked
RankFinish ==
  /\ rPc = "loop"
  /\ hashIdx > Len(txHashList)
  /\ rPc' = "done"
  /\ activities' = RankActivities(contractInteractions)
  /\ UNCHANGED <<logHashes, txTo, txHashList, hashIdx, contractInteractions, processedCount>>
  /\ UNCHANGED outsideRank

NextRank ==
  \/ /\ rPc = "idle"
     /\ \E n \in HashCounts, perTx \in LogsPerTxInputs, pattern \in TxToPatterns :
          RankStart(n, perTx, pattern)
  \/ ProcessHash
  \/ SkipHash
  \/ RankFinish


(***************************************************************************)
(* analyzeEnhancedRisk: the risk score                                      *)
(***************************************************************************)
RiskChainInputs == {"solana", "Solana", "ethereum"}
\* tokenData.totalLiquidity, in USD: both sides of each threshold
LiquidityInputs == {9999, 10000, 50000, 200000}
\* tokenData.holders as the list of the percentages, largest first: none, a whale,
\* five holders with 75% between them, two small holders, eleven holders of 7%
HoldersInputs ==
  {<<>>, <<25, 10>>, <<15, 15, 15, 15, 15>>, <<10, 5>>, [i \in 1..11 |-> 7]}
TokenDataInputs ==
  [chainId : RiskChainInputs, isVerified : BOOLEAN, hasOwnerFunction : BOOLEAN,
   hasMintAuthority : BOOLEAN, totalLiquidity : LiquidityInputs, holders : HoldersInputs]
\* what detectUnlimitedMint returns: no maxSupply function, a cap, or the value of
\* its catch block (maxSupply None: the field is absent)
MintAnalysisInputs ==
  {[hasUnlimitedMint |-> TRUE, maxSupply |-> None],
   [hasUnlimitedMint |-> FALSE, maxSupply |-> 1000],
   [hasUnlimitedMint |-> FALSE, maxSupply |-> None]}
\* what getContractAge returns, in whole days (ageInDays None: the field is absent)
ContractAgeInputs ==
  {[isNew |-> TRUE, ageInDays |-> 3], [isNew |-> FALSE, ageInDays |-> 100],
   [isNew |-> FALSE, ageInDays |-> 400], [isNew |-> FALSE, ageInDays |-> None]}
\* what detectTradingTax returns; the fees are in percent as the contract reports
\* them, the taxes in hundredths of a percent
RiskTaxInputs ==
  {TaxUnknownResult, TaxResult(FALSE, NullFee, NullFee)}
    \cup {TaxResult(TRUE, b, s) : b \in {0, 4, 30}, s \in {0, 8}}

\* holders.slice(0, 10).reduce((sum, h) => sum + h.percentage, 0)
RECURSIVE SumPercent(_)
SumPercent(list) == IF list = <<>> THEN 0 ELSE Head(list) + SumPercent(Tail(list))
Top10Percentage(holderList) == SumPercent(SubSeq(holderList, 1, Min(10, Len(holderList))))

analyzeHolderConcentration(holderList) ==
  LET top10Percentage == Top10Percentage(holderList)
      top1Percentage == IF Len(holderList) > 0 THEN holderList[1] ELSE 0
  IN [top10Concentration |-> top10Percentage,
      top1Concentration |-> top1Percentage,
      isHighlyConcentrated |-> top10Percentage > 70,
      hasDominantWhale |-> top1Percentage > 20]

\* the clamp of the Solana return and the clamp of the EVM path
ClampSolana(s) == Max(0, Min(100, s))
ClampScore_None(s) == s
ClampScore(s) == Max(1, Min(100, s))

\* the liquidity check of the Solana branch: the factor pushed (or none) and the delta
SolanaLiquidity(liquidity) ==
  IF liquidity < 10000 THEN [factor |-> <<"Low Liquidity">>, delta |-> -30]
  ELSE IF liquidity < 50000 THEN [factor |-> <<"Moderate Liquidity">>, delta |-> -15]
  ELSE [factor |-> <<>>, delta |-> 0]

SolanaHolders(holderList) ==
  IF Len(holderList) > 0 /\ Top10Percentage(holderList) > 70
    THEN [factor |-> <<"High Holder Concentration">>, delta |-> -25]
  ELSE IF Len(holderList) > 0 /\ Top10Percentage(holderList) > 50
    THEN [factor |-> <<"Moderate Holder Concentration">>, delta |-> -15]
  ELSE [factor |-> <<>>, delta |-> 0]

\* the tax check; (buyTax + sellTax) / 2 > 10 percent, with the taxes in hundredths
TaxFinding(tradingTax) ==
  IF tradingTax.state = "TaxUnknown"
    THEN [factor |-> <<"Indeterminate Trading Tax">>, delta |-> -25]
  ELSE IF tradingTax.state = "TaxKnown"
    THEN LET twiceAvg == tradingTax.buyTax + tradingTax.sellTax
         IN IF twiceAvg > 2 * 1000
              THEN [factor |-> <<"High Trading Tax">>, delta |-> -20]
            ELSE IF twiceAvg > 2 * 500
              THEN [factor |-> <<"Moderate Trading Tax">>, delta |-> -10]
            ELSE IF twiceAvg > 0
              THEN [factor |-> <<"Low Trading Tax">>, delta |-> -5]
            ELSE [factor |-> <<>>, delta |-> 0]
  ELSE [factor |-> <<>>, delta |-> 0]

EvmLiquidity(liquidity) ==
  IF liquidity < 10000 THEN [factor |-> <<"Critical Liquidity Risk">>, delta |-> -30]
  ELSE IF liquidity < 50000 THEN [factor |-> <<"Low Liquidity">>, delta |-> -20]
  ELSE IF liquidity < 200000 THEN [factor |-> <<"Moderate Liquidity">>, delta |-> -10]
  ELSE [factor |-> <<"Healthy Liquidity">>, delta |-> 0]

EvmHolders(holderList) ==
  IF Len(holderList) = 0 THEN [factor |-> <<>>, delta |-> 0]
  ELSE IF analyzeHolderConcentration(holderList).hasDominantWhale
    THEN [factor |-> <<"Dominant Whale Holder">>, delta |-> -25]
  ELSE IF analyzeHolderConcentration(holderList).isHighlyConcentrated
    THEN [factor |-> <<"High Holder Concentration">>, delta |-> -15]
  ELSE [factor |-> <<"Distributed Holder Base">>, delta |-> 0]

\* what each check resolves with when every provider call it makes is rejected on
\* every attempt: detectProxyPattern, getContractAge and detectHoneypot reach
\* their catch block; in detectUnlimitedMint the catch around maxSupply() answers,
\* and in detectTradingTax the catch around each probe leaves readSucceeded false
ProxyOnFailure == FALSE
MintOnFailure == [hasUnlimitedMint |-> TRUE, maxSupply |-> None]
AgeOnFailure == [isNew |-> FALSE, ageInDays |-> None]
HoneypotOnFailure == FALSE
TaxOnFailure == TaxResult(FALSE, NullFee, NullFee)

NoRiskAnalysis == [score |-> None]

InitRisk ==
  /\ aPc = "idle"
  /\ tokenData = [chainId |-> "ethereum", isVerified |-> TRUE, hasOwnerFunction |-> FALSE,
                  hasMintAuthority |-> FALSE, totalLiquidity |-> 200000, holders |-> <<>>]
  /\ score = 100
  /\ factors = <<>>
  /\ isHoneypot = FALSE
  /\ riskAnalysis = NoRiskAnalysis

\* the call on a Solana token: the whole branch, up to its return
AnalyzeSolana(data) ==
  /\ aPc = "idle"
  /\ ToLowerCase(data.chainId) = "solana"
  /\ LET liq == SolanaLiquidity(data.totalLiquidity)
         conc == SolanaHolders(data.holders)
         found == liq.factor \o conc.factor
         final == 100 + liq.delta + conc.delta
     IN /\ score' = final
        /\ factors' = IF Len(found) > 0 THEN found ELSE <<"Limited Analysis Available">>
        /\ riskAnalysis' = [score |-> ClampSolana(final)]
  /\ tokenData' = data
  /\ aPc' = "done"
  /\ UNCHANGED isHoneypot
  /\ UNCHANGED outsideRisk

\* the call on an EVM token, up to the await of detectProxyPattern
AnalyzeEvm(data) ==
  /\ aPc = "idle"
  /\ ToLowerCase(data.chainId) # "solana"
  /\ tokenData' = data
  /\ IF ~data.isVerified
       THEN score' = 100 - 15 /\ factors' = <<"Unverified Contract">>
       ELSE score' = 100 /\ factors' = <<>>
  /\ aPc' = "proxy"
  /\ UNCHANGED <<isHoneypot, riskAnalysis>>
  /\ UNCHANGED outsideRisk

\* detectProxyPattern resolves; the owner check follows; detectUnlimitedMint is
\* awaited only when the token has a mint authority
ProxyDetected(isProxy) ==
  /\ aPc = "proxy"
  /\ LET proxy == IF isProxy THEN [factor |-> <<"Upgradeable Proxy Detected">>, delta |-> -30]
                  ELSE [factor |-> <<>>, delta |-> 0]
         owner == IF tokenData.hasOwnerFunction
                    THEN [factor |-> <<"Owner Privileges Detected">>, delta |-> -25]
                    ELSE [factor |-> <<>>, delta |-> 0]
     IN /\ score' = score + proxy.delta + owner.delta
        /\ factors' = factors \o proxy.factor \o owner.factor
  /\ aPc' = IF tokenData.hasMintAuthority THEN "mint" ELSE "age"
  /\ UNCHANGED <<tokenData, isHoneypot, riskAnalysis>>
  /\ UNCHANGED outsideRisk

\* detectUnlimitedMint resolves
MintAnalysed(mintAnalysis) ==
  /\ aPc = "mint"
  /\ IF mintAnalysis.hasUnlimitedMint
       THEN score' = score - 35 /\ factors' = Append(factors, "Unlimited Minting Authority")
     ELSE IF mintAnalysis.maxSupply # None /\ mintAnalysis.maxSupply # 0
       THEN score' = score - 5 /\ factors' = Append(factors, "Capped Mint Authority")
     ELSE UNCHANGED <<score, factors>>
  /\ aPc' = "age"
  /\ UNCHANGED <<tokenData, isHoneypot, riskAnalysis>>
  /\ UNCHANGED outsideRisk

\* getContractAge resolves
AgeFound(contractAge) ==
  /\ aPc = "age"
  /\ IF contractAge.isNew /\ contractAge.ageInDays # None
       THEN score' = score - 15 /\ factors' = Append(factors, "Recently Deployed Contract")
     ELSE IF contractAge.ageInDays # None /\ contractAge.ageInDays > 365
       THEN score' = score + 5 /\ factors' = Append(factors, "Established Contract")
     ELSE UNCHANGED <<score, factors>>
  /\ aPc' = "honeypot"
  /\ UNCHANGED <<tokenData, isHoneypot, riskAnalysis>>
  /\ UNCHANGED outsideRisk

\* detectHoneypot resolves
HoneypotChecked(found) ==
  /\ aPc = "honeypot"
  /\ isHoneypot' = found
  /\ IF found
       THEN score' = score - 40 /\ factors' = Append(factors, "Potential Honeypot Detected")
       ELSE UNCHANGED <<score, factors>>
  /\ aPc' = "tax"
  /\ UNCHANGED <<tokenData, riskAnalysis>>
  /\ UNCHANGED outsideRisk

\* detectTradingTax resolves; the liquidity and holder checks follow, then the
\* clamp and the return.  The average tax returned is whole for the inputs used.
TaxDetected(tradingTax) ==
  /\ aPc = "tax"
  /\ LET tax == TaxFinding(tradingTax)
         liq == EvmLiquidity(tokenData.totalLiquidity)
         conc == EvmHolders(tokenData.holders)
         final == score + tax.delta + liq.delta + conc.delta
     IN /\ score' = final
        /\ factors' = factors \o tax.factor \o liq.factor \o conc.factor
        /\ riskAnalysis' =
             [score |-> ClampScore(final),
              hasOwnerPrivileges |-> tokenData.hasOwnerFunction,
              hasMintAuthority |-> tokenData.hasMintAuthority,
              hasHoneypot |-> isHoneypot,
              lpOwnershipPercent |->
                IF Len(tokenData.holders) > 0
                  THEN analyzeHolderConcentration(tokenData.holders).top1Concentration
                  ELSE 0,
              tradingTax |-> IF tradingTax.hasTax
                               THEN (tradingTax.buyTax + tradingTax.sellTax) \div 2 ELSE 0]
  /\ aPc' = "done"
  /\ UNCHANGED <<tokenData, isHoneypot>>
  /\ UNCHANGED outsideRisk

NextRisk ==
  \/ /\ aPc = "idle"
     /\ \E data \in TokenDataInputs : AnalyzeSolana(data)
  \/ /\ aPc = "idle"
     /\ \E data \in TokenDataInputs : AnalyzeEvm(data)
  \/ \E isProxy \in BOOLEAN : ProxyDetected(isProxy)
  \/ \E mintAnalysis \in MintAnalysisInputs : MintAnalysed(mintAnalysis)
  \/ \E contractAge \in ContractAgeInputs : AgeFound(contractAge)
  \/ \E found \in BOOLEAN : HoneypotChecked(found)
  \/ \E tradingTax \in RiskTaxInputs : TaxDetected(tradingTax)


(***************************************************************************)
(* Specifications                                                           *)

(***************************************************************************)
(* getContractAge (enhancedRiskAnalysis.ts): binary search for the         *)
(* deployment block                                                        *)
(***************************************************************************)
MaxAgeLatest == 6

\* block.timestamp of the sampled blocks, s, and Date.now() / 1000 of the call
GenesisTimestamp == 1000000
BlockInterval == 2 * 24 * 60 * 60
BlockTimestamp(b) == GenesisTimestamp + b * BlockInterval
AgeNow(latest) == BlockTimestamp(latest) + 1
NewContractDays == 7

\* getCode(address, b) !== '0x' for every block b: any history, monotone or not
CodeHistories(latest) == [0..latest -> BOOLEAN]

\* mutant of SearchStep: a block with code lowers high but is not recorded
SearchStep_NotRecorded(lo, hi, dep, codeAtBlock) ==
  LET mid == (lo + hi) \div 2
  IN IF ~codeAtBlock[mid]
       THEN [low |-> mid + 1, high |-> hi, deployBlock |-> dep]
       ELSE [low |-> lo, high |-> mid - 1, deployBlock |-> dep]

\* one iteration of the while loop
SearchStep(lo, hi, dep, codeAtBlock) ==
  LET mid == (lo + hi) \div 2
  IN IF ~codeAtBlock[mid]
       THEN [low |-> mid + 1, high |-> hi, deployBlock |-> dep]
       ELSE [low |-> lo, high |-> mid - 1, deployBlock |-> mid]

\* the value of the catch block and of a missing block
AgeUnknown == [isNew |-> FALSE, deployedAt |-> None, ageInSeconds |-> None]

InitAge ==
  /\ gPc = "idle"
  /\ ageLatest = 0
  /\ codeAt = [b \in 0..0 |-> FALSE]
  /\ low = 0
  /\ high = 0
  /\ deployBlock = 0
  /\ ageResult = AgeUnknown

\* getBlockNumber resolves with latest
AgeStart(latest, history) ==
  /\ gPc = "idle"
  /\ gPc' = "search"
  /\ ageLatest' = latest
  /\ codeAt' = history
  /\ low' = 0
  /\ high' = latest
  /\ deployBlock' = latest
  /\ UNCHANGED <<ageResult, outsideAge>>

\* getCode(address, mid) resolves
AgeProbe ==
  /\ gPc = "search"
  /\ low <= high
  /\ LET next == SearchStep(low, high, deployBlock, codeAt)
     IN /\ low' = next.low
        /\ high' = next.high
        /\ deployBlock' = next.deployBlock
  /\ UNCHANGED <<gPc, ageLatest, codeAt, ageResult, outsideAge>>

\* getBlock(deployBlock) resolves with the block or with null; ageInDays is
\* ageInSeconds / 86400, and isNew is ageInDays < 7
AgeBlock(found) ==
  /\ gPc = "search"
  /\ low > high
  /\ gPc' = "done"
  /\ ageResult' =
       IF ~found THEN AgeUnknown
       ELSE LET deployedAt == BlockTimestamp(deployBlock)
                ageInSeconds == AgeNow(ageLatest) - deployedAt
            IN [isNew |-> ageInSeconds < NewContractDays * 24 * 60 * 60,
                deployedAt |-> deployedAt, ageInSeconds |-> ageInSeconds]
  /\ UNCHANGED <<ageLatest, codeAt, low, high, deployBlock, outsideAge>>

\* a provider call of the search fails on every attempt: the catch block answers
AgeThrow ==
  /\ gPc = "search"
  /\ gPc' = "done"
  /\ ageResult' = AgeUnknown
  /\ UNCHANGED <<ageLatest, codeAt, low, high, deployBlock, outsideAge>>

NextAge ==
  \/ /\ gPc = "idle"
     /\ \E latest \in 0..MaxAgeLatest :
          \E history \in CodeHistories(latest) : AgeStart(latest, history)
  \/ AgeProbe
  \/ \E found \in BOOLEAN : AgeBlock(found)
  \/ AgeThrow


(***************************************************************************)
(* detectHoneypot (enhancedRiskAnalysis.ts)                                *)
(***************************************************************************)
\* const honeypotSelectors, without the leading "0x" (selector.slice(2))
HoneypotSelectors == {"16c38b3c", "0e71804f", "59bf1abe", "c9567bf9", "8b4cee08"}
SelectorWeight == 30
SmallCodeLength == 3000
SmallCodeWeight == 20
SimpleCodeLength == 2000
SimpleCodeWeight == 25
HoneypotThreshold == 50

\* code.length of the hex string getCode resolves with ("0x" for no code)
CodeLengthInputs == {2, 1999, 2000, 2999, 3000, 5000}

\* a string of that length can hold these selectors (8 characters each after "0x")
FitsCode(selectors, length) == 2 + 8 * Cardinality(selectors) <= length

\* what a call of tradingOpen() or tradingEnabled() can do
TradingOutcomes == {"true", "false", "throws"}

\* mutant of HoneypotScore: the code size is not weighed
HoneypotScore_SelectorsOnly(selectors, length) ==
  Cardinality(selectors) * SelectorWeight

\* let honeypotScore after the three additions
HoneypotScore(selectors, length) ==
  LET suspiciousSelectors == Cardinality(selectors)
  IN suspiciousSelectors * SelectorWeight
       + (IF length < SmallCodeLength THEN SmallCodeWeight ELSE 0)
       + (IF length < SimpleCodeLength /\ suspiciousSelectors > 0
            THEN SimpleCodeWeight ELSE 0)

InitHoneypot ==
  /\ yPc = "idle"
  /\ codeSelectors = {}
  /\ codeLength = 0
  /\ honeypotScore = None
  /\ honeypotResult = FALSE

\* getCode resolves: the selectors are counted and the score is compared
HoneypotGetCode(selectors, length) ==
  /\ yPc = "idle"
  /\ codeSelectors' = selectors
  /\ codeLength' = length
  /\ honeypotScore' = HoneypotScore(selectors, length)
  /\ IF honeypotScore' >= HoneypotThreshold
       THEN yPc' = "tradingOpen" /\ UNCHANGED honeypotResult
       ELSE yPc' = "done" /\ honeypotResult' = FALSE
  /\ UNCHANGED outsideHoneypot

\* getCode fails on every attempt: the catch block answers false
HoneypotThrow ==
  /\ yPc = "idle"
  /\ yPc' = "done"
  /\ honeypotResult' = FALSE
  /\ UNCHANGED <<codeSelectors, codeLength, honeypotScore, outsideHoneypot>>

\* contract.tradingOpen() settles
HoneypotTradingOpen(result) ==
  /\ yPc = "tradingOpen"
  /\ CASE result = "false" -> yPc' = "done" /\ honeypotResult' = TRUE
       [] result = "true" -> yPc' = "done" /\ honeypotResult' = TRUE
       [] result = "throws" -> yPc' = "tradingEnabled" /\ UNCHANGED honeypotResult
  /\ UNCHANGED <<codeSelectors, codeLength, honeypotScore, outsideHoneypot>>

\* contract.tradingEnabled() settles
HoneypotTradingEnabled(result) ==
  /\ yPc = "tradingEnabled"
  /\ yPc' = "done"
  /\ honeypotResult' = TRUE
  /\ UNCHANGED <<codeSelectors, codeLength, honeypotScore, outsideHoneypot>>

NextHoneypot ==
  \/ /\ yPc = "idle"
     /\ \E selectors \in SUBSET HoneypotSelectors :
          \E length \in {l \in CodeLengthInputs : FitsCode(selectors, l)} :
            HoneypotGetCode(selectors, length)
  \/ HoneypotThrow
  \/ \E result \in TradingOutcomes : HoneypotTradingOpen(result)
  \/ \E result \in TradingOutcomes : HoneypotTradingEnabled(result)


(***************************************************************************)
(* scanRecentHolders, accurate mode (recentHolderScanner.ts): the balanceOf *)
(* queries in batches                                                      *)
(***************************************************************************)
BATCH_SIZE == 50
MaxAddresses == 105

\* balances.size: no key, fewer than a batch, one batch, one more, two batches and more
AddressCounts == {0, 3, BATCH_SIZE, BATCH_SIZE + 1, MaxAddresses}

\* the ledger of the scan: the k-th key with a negative, a zero or a positive delta
LedgerOf(n) == [k \in 1..n |-> [address |-> k, balance |-> (k % 3) - 1]]

\* what balanceOf answers for the k-th key on the chain
BalancePatterns == {"growing", "sparse"}
ChainBalance(pattern, k) ==
  IF pattern = "growing" THEN 10 * k
  ELSE IF k % 2 = 0 THEN 0 ELSE 7

\* the queries the provider rejects
FailPatterns == {"none", "everyThird", "all"}
QueryFails(pattern, k) ==
  CASE pattern = "none" -> FALSE
    [] pattern = "everyThird" -> k % 3 = 0
    [] pattern = "all" -> TRUE

\* totalSupply of the token
AccurateSupply == 10000

\* Array.from(balances.keys())
LedgerKeys(m) == [k \in 1..Len(m) |-> m[k].address]

\* mutant of SliceBatch: every remaining address goes into the batch
SliceBatch_Rest(list, i) == SubSeq(list, i + 1, Len(list))

\* addresses.slice(i, i + BATCH_SIZE)
SliceBatch(list, i) == SubSeq(list, i + 1, Min(i + BATCH_SIZE, Len(list)))

\* one promise of the batch: the balance read, or 0 from its catch block
QueryResult(addr, answers, failures) ==
  [address |-> addr,
   balance |-> IF QueryFails(failures, addr) THEN 0
               ELSE ChainBalance(answers, addr)]

\* results.forEach(...): the positive balances are set, in the order of the batch;
\* the addresses are the keys of a Map and each is in one batch only, so every set
\* adds a new entry at the end
SetPositive(m, results) == m \o SelectSeq(results, LAMBDA r : r.balance > 0)

\* rank of the i-th entry: the sort is stable and descending
\* by balance, so an entry goes behind the larger ones and the earlier equal ones
SortedPosition(m, i) ==
  1 + Cardinality({j \in 1..Len(m) :
                     \/ m[j].balance > m[i].balance
                     \/ m[j].balance = m[i].balance /\ j < i})

\* Array.prototype.sort (stable) with the comparator of the code, for long lists
SortByBalance(m) ==
  [p \in 1..Len(m) |-> m[CHOOSE i \in 1..Len(m) : SortedPosition(m, i) = p]]

AccurateRecords(m, totalSupply) ==
  LET sorted == SortByBalance(m) IN
  [i \in 1..Len(sorted) |->
     [address |-> sorted[i].address,
      balance |-> BalanceToString(sorted[i].balance),
      percentage |-> PercentHundredths(sorted[i].balance, totalSupply)]]

InitAccurate ==
  /\ qPc = "idle"
  /\ qLedger = <<>>
  /\ balancePattern = "growing"
  /\ failPattern = "none"
  /\ addresses = <<>>
  /\ batchStart = 0
  /\ inFlight = 0
  /\ actualBalances = <<>>
  /\ accurateHolders = <<>>

\* the else branch is entered with the ledger of the scan
AccurateStart(n, answers, failures) ==
  /\ qPc = "idle"
  /\ qPc' = "loop"
  /\ qLedger' = LedgerOf(n)
  /\ balancePattern' = answers
  /\ failPattern' = failures
  /\ addresses' = LedgerKeys(LedgerOf(n))
  /\ batchStart' = 0
  /\ inFlight' = 0
  /\ actualBalances' = <<>>
  /\ UNCHANGED <<accurateHolders, outsideAccurate>>

\* i < addresses.length: batch.map(...) starts one query per address of the batch
BatchStart ==
  /\ qPc = "loop"
  /\ batchStart < Len(addresses)
  /\ qPc' = "batch"
  /\ inFlight' = Len(SliceBatch(addresses, batchStart))
  /\ UNCHANGED <<qLedger, balancePattern, failPattern, addresses, batchStart,
                 actualBalances, accurateHolders, outsideAccurate>>

\* one query of the batch settles, in any order: its promise resolves with the
\* balance or, from its catch block, with 0.  Promise.all keeps the results in the
\* order of the batch, so only the number of unsettled queries is kept.
QuerySettle ==
  /\ qPc = "batch"
  /\ inFlight > 0
  /\ inFlight' = inFlight - 1
  /\ UNCHANGED <<qPc, qLedger, balancePattern, failPattern, addresses, batchStart,
                 actualBalances, accurateHolders, outsideAccurate>>

\* Promise.all resolves: the results are stored and i += BATCH_SIZE
BatchDone ==
  /\ qPc = "batch"
  /\ inFlight = 0
  /\ LET batch == SliceBatch(addresses, batchStart)
         results == [k \in 1..Len(batch) |->
                       QueryResult(batch[k], balancePattern, failPattern)]
     IN actualBalances' = SetPositive(actualBalances, results)
  /\ batchStart' = batchStart + BATCH_SIZE
  /\ qPc' = "loop"
  /\ UNCHANGED <<qLedger, balancePattern, failPattern, addresses, inFlight,
                 accurateHolders, outsideAccurate>>

\* the loop ends: the holders are sorted and returned
AccurateFinish ==
  /\ qPc = "loop"
  /\ batchStart >= Len(addresses)
  /\ qPc' = "done"
  /\ accurateHolders' = AccurateRecords(actualBalances, AccurateSupply)
  /\ UNCHANGED <<qLedger, balancePattern, failPattern, addresses, batchStart, inFlight,
                 actualBalances, outsideAccurate>>

NextAccurate ==
  \/ /\ qPc = "idle"
     /\ \E n \in AddressCounts : \E answers \in BalancePatterns :
          \E failures \in FailPatterns : AccurateStart(n, answers, failures)
  \/ BatchStart
  \/ QuerySettle
  \/ BatchDone
  \/ AccurateFinish

(***************************************************************************)
Init ==
  /\ InitPool /\ InitScan /\ InitApi /\ InitHolder /\ InitTax /\ InitLive /\ InitFlow
  /\ InitRank /\ InitRisk /\ InitAge /\ InitHoneypot /\ InitAccurate

\* a scan runs against the pool with every URL configured
InitScanRun ==
  /\ InitPool /\ providers = RPC_CONFIGS(TRUE) /\ InitScan /\ InitApi /\ InitHolder
  /\ InitTax /\ InitLive /\ InitFlow /\ InitRank /\ InitRisk /\ InitAge /\ InitHoneypot /\ InitAccurate

SpecPool == Init /\ [][NextPool]_vars

\* any sequence of direct calls of the exported functions, with the recovery timers
SpecPoolApi == Init /\ [][NextPoolApi]_vars

\* callers of executeWithFailover: an awaited operation settles, a due timer runs
FairSpecPool ==
  /\ SpecPool
  /\ \A c \in Callers : WF_poolVars(OpSucceed(c) \/ OpFail(c))
  /\ \A c \in Callers : WF_poolVars(Wake(c))
  /\ WF_poolVars(JumpToTimer)
  /\ WF_poolVars(\E t \in timers : RecoveryTimer(t))

SpecScan == InitScanRun /\ [][NextScan]_vars

SpecHolderLedger == InitScanRun /\ [][NextHolderLedger]_vars

SpecHolderFetch == InitScanRun /\ [][NextHolderFetch]_vars

SpecTax == InitScanRun /\ [][NextTax]_vars

SpecLive == InitScanRun /\ [][NextLive]_vars

SpecFlow == InitScanRun /\ [][NextFlow]_vars

SpecRank == InitScanRun /\ [][NextRank]_vars

SpecRisk == InitScanRun /\ [][NextRisk]_vars

SpecAccurate == InitScanRun /\ [][NextAccurate]_vars

SpecHoneypot == InitScanRun /\ [][NextHoneypot]_vars

SpecAge == InitScanRun /\ [][NextAge]_vars

\* the number of blocks a log request spans
Span(request) == request[2] - request[1] + 1

\* a provider of the free tier: a request of more than 10 blocks is answered with
\* the "10 block range" error, every other request with its logs
NextScan10 ==
  \/ \E latest \in LatestBlocks, scanDepth \in ScanDepths : ScanStart(latest, scanDepth)
  \/ /\ FetchOk
     /\ Span(lastRequest') <= 10
  \/ /\ FetchFail(MsgRange10)
     /\ Span(lastRequest') > 10

SpecScan10 == InitScanRun /\ [][NextScan10]_vars

\* a scan long enough for the chunk size to grow to maxChunkSize (50, 100, ... 1600,
\* 2000), against a provider that serves the requests for the first blocks and may
\* answer every later request with a rate-limit response
NextScanRate ==
  \/ ScanStart(DeepLatestBlock, DefaultScanDepth)
  \/ FetchOk
  \/ \E msg \in RateLimitMessages : /\ currentBlock >= RateLimitedFromBlock
                                      /\ FetchFail(msg)

SpecScanRate == InitScanRun /\ [][NextScanRate]_vars


(***************************************************************************)
(* Properties of the provider pool and of executeWithFailover               *)
(***************************************************************************)
\* providers with a non-empty URL that are healthy
HealthyNonEmpty(provs) ==
  {i \in Providers : provs[i].url # EmptyUrl /\ provs[i].isHealthy}

\* the provider of a returned URL (URLs of configured providers are distinct)
ProviderOf(url) == CHOOSE i \in Providers : providers[i].url = url

\* a step in which caller c selects a provider at the start of an attempt
TrySelect(c) == pc[c] # "op" /\ pc'[c] = "op"

\* a step in which caller c selects a provider in its catch block
CatchSelect(c) == pc[c] = "op" /\ pc'[c] \in {"backoff", "failed"}

\* url is what the claim expects of getBestProvider in the pool provs
IsBestHealthy(provs, url) ==
  \E i \in HealthyNonEmpty(provs) :
    /\ url = provs[i].url
    /\ \A j \in HealthyNonEmpty(provs) : provs[i].priority <= provs[j].priority

\* C1: whenever some provider with a non-empty URL is healthy, getBestProvider (at the
\* start of an attempt and in the catch block) returns the URL of the healthy,
\* non-empty-URL provider with the lowest priority number, never an unhealthy
\* provider's URL and never the empty URL.
C1_BestHealthyProvider ==
  [][\A c \in Callers :
       HealthyNonEmpty(providers) # {} =>
         /\ TrySelect(c) => /\ IsBestHealthy(providers, providerUrl'[c])
                            /\ providerUrl'[c] # EmptyUrl
         /\ CatchSelect(c) => /\ IsBestHealthy(providers, reportedUrl'[c])
                              /\ reportedUrl'[c] # EmptyUrl]_vars

\* C1 witness: a call whose first attempt runs on provider 2 although provider 1 has a
\* URL: provider 1 was unhealthy when getBestProvider selected.
C1_Witness ==
  \E c \in Callers :
    /\ pc[c] = "op"
    /\ invocations[c] = 1
    /\ providers[1].url # EmptyUrl
    /\ ~providers[1].isHealthy
    /\ providerUrl[c] = providers[2].url

\* the 5-minute cooldown counted from the latest marking of the provider of url has elapsed
CooldownElapsed(url) ==
  LET i == ProviderOf(url) IN
  (streak[i] >= MAX_FAILURES_BEFORE_UNHEALTHY /\ markedAt[i] # None)
    => now >= markedAt[i] + UNHEALTHY_COOLDOWN

C3_FailureReportedAgainstUsed ==
  [][\A c \in Callers : CatchSelect(c) => reportedUrl'[c] = providerUrl[c]]_vars

\* C4 as stated: a call that runs alone, started with every provider healthy and at
\* least two providers configured (the first call made on the pool), fails terminally
\* only after an attempt on a provider other than the first one.
C4_FallbackBeforeTerminalFailure ==
  [][\A c \in Callers :
       ( /\ pc[c] = "op"
         /\ pc'[c] = "failed"
         /\ callsMade = 1
         /\ Len(AvailableProviders(providers)) >= 2 )
       => Cardinality(tried[c]) >= 2]_vars

\* C9: the operation is invoked at most maxRetries times per call; a call that returns,
\* returns the result of its first successful invocation (every earlier one failed); a
\* call throws only after the maxRetries-th failed invocation; there is no backoff wait
\* after the last failure; and every call that has started terminates.
C9_BoundedAttemptsAndTermination ==
  /\ [](\A c \in Callers :
          /\ invocations[c] <= DefaultMaxRetries
          /\ pc[c] = "done" => outcome[c].kind = "returned"
          /\ pc[c] = "failed" => outcome[c].kind = "threw"
          /\ pc[c] = "backoff" => /\ attemptCount[c] < DefaultMaxRetries
                                  /\ attemptCount[c] = invocations[c]
          /\ pc[c] = "op" => /\ invocations[c] >= 1
                             /\ attemptCount[c] = invocations[c] - 1)
  /\ [][\A c \in Callers :
          /\ (pc[c] = "op" /\ pc'[c] = "done")
                => outcome'[c] = [kind |-> "returned", of |-> invocations[c]]
          /\ (pc[c] = "op" /\ pc'[c] = "failed")
                => invocations[c] = DefaultMaxRetries]_vars
  /\ \A c \in Callers :
       (pc[c] \in {"op", "backoff"}) ~> (pc[c] \in {"done", "failed"})

\* C9 witness: a call returned the result of its third invocation after two failures.
C9_Witness ==
  \E c \in Callers :
    /\ pc[c] = "done"
    /\ outcome[c] = [kind |-> "returned", of |-> DefaultMaxRetries]

\* C10: a call whose attempts all failed throws an error that carries the cause of its
\* last failed invocation; a call for a chain without configuration throws without
\* invoking the operation and leaves every provider and every recovery timer as it was.
C10_TerminalErrorCarriesLastCause ==
  /\ [](\A c \in Callers :
          pc[c] = "noconfig" => /\ invocations[c] = 0
                                /\ outcome[c].kind = "noconfig")
  /\ [][\A c \in Callers :
          /\ (pc[c] = "op" /\ pc'[c] = "failed")
                => outcome'[c] = [kind |-> "threw", of |-> invocations[c]]
          /\ ( /\ callsMade' # callsMade
                /\ pc'[c] = "noconfig"
                /\ \A d \in Callers \ {c} : pc'[d] = pc[d] )
                => /\ providers' = providers
                   /\ timers' = timers]_vars

\* C10 witness: one call failed terminally after its third invocation and another call
\* was rejected for a chain without configuration.
C10_Witness ==
  \E c, d \in Callers :
    /\ pc[c] = "failed"
    /\ outcome[c].of = DefaultMaxRetries
    /\ pc[d] = "noconfig"


(***************************************************************************)
(* Properties of the exported pool functions                                *)
(***************************************************************************)
\* a step that is a direct call of the exported function fn for a configured chain
ApiStep(fn) ==
  /\ apiCalls' # apiCalls
  /\ apiCall'.fn = fn
  /\ HasConfig(apiCall'.chain)

\* the provider a report call finds for the URL it was given (None: no such provider)
Reported == FindProvider(providers, apiCall'.url)

\* the providers with a non-empty URL
NonEmptyUrl(provs) == {i \in Providers : provs[i].url # EmptyUrl}

\* C11: when no provider with a non-empty URL is healthy, getBestProvider sets every
\* such provider (and no other) healthy with failure count 0 and returns the URL of the
\* one with the lowest priority number; for a configured chain with at least one URL it
\* always returns the non-empty URL of a provider and never throws.
C11_ResetWhenNoneHealthy ==
  [][ApiStep("getBestProvider") =>
       /\ NonEmptyUrl(providers) # {} =>
            /\ ~apiCall'.threw
            /\ apiCall'.returned # EmptyUrl
            /\ \E i \in NonEmptyUrl(providers) : providers[i].url = apiCall'.returned
       /\ (NonEmptyUrl(providers) # {} /\ HealthyNonEmpty(providers) = {}) =>
            /\ \A i \in NonEmptyUrl(providers) :
                 /\ providers'[i].isHealthy
                 /\ providers'[i].failureCount = 0
            /\ \A i \in Providers \ NonEmptyUrl(providers) : providers'[i] = providers[i]
            /\ \E i \in NonEmptyUrl(providers) :
                 /\ apiCall'.returned = providers[i].url
                 /\ \A j \in NonEmptyUrl(providers) :
                      providers[i].priority <= providers[j].priority]_vars

\* C11 witness: the first two providers were each marked unhealthy by three failure
\* reports and the seventh call, getBestProvider, reset them (no time has passed, their
\* recovery timers are still pending) and returned the first one.
C11_Witness ==
  /\ apiCall.fn = "getBestProvider"
  /\ apiCalls = 2 * MAX_FAILURES_BEFORE_UNHEALTHY + 1
  /\ now = 0
  /\ apiCall.returned = providers[1].url
  /\ \A i \in 1..2 : /\ providers[i].url # EmptyUrl
                     /\ markedAt[i] # None
                     /\ providers[i].isHealthy
                     /\ providers[i].failureCount = 0
                     /\ \E t \in timers : t.p = i

\* C12: reportProviderFailure adds exactly 1 to the failure count of the provider it
\* finds and touches no other provider; a call that brings the count to 1 or 2 leaves the
\* health flag and the timers alone; the call that brings it to 3 makes the provider
\* unhealthy and schedules a recovery timer due 5 minutes later; a healthy provider has a
\* count below 3 (so the flip happens in that call); and a recovery timer runs no earlier
\* than it is due and leaves its provider healthy with failure count 0.
C12_FailureCountsAndFlipsAtThree ==
  /\ [](\A i \in Providers :
          providers[i].isHealthy => providers[i].failureCount < MAX_FAILURES_BEFORE_UNHEALTHY)
  /\ [][/\ (ApiStep("reportProviderFailure") /\ Reported # None) =>
             /\ providers'[Reported].failureCount = providers[Reported].failureCount + 1
             /\ \A j \in Providers \ {Reported} : providers'[j] = providers[j]
             /\ providers'[Reported].failureCount \in {1, 2} =>
                  /\ providers'[Reported].isHealthy = providers[Reported].isHealthy
                  /\ timers' = timers
             /\ providers'[Reported].failureCount = MAX_FAILURES_BEFORE_UNHEALTHY =>
                  /\ ~providers'[Reported].isHealthy
                  /\ [p |-> Reported, at |-> now + UNHEALTHY_COOLDOWN] \in timers'
        /\ \A t \in timers :
             t \notin timers' => /\ now >= t.at
                                 /\ providers'[t.p].isHealthy
                                 /\ providers'[t.p].failureCount = 0]_vars

\* C12 witness: a failure report has just brought a provider's count to 3; the provider
\* is unhealthy and its recovery is due in 5 minutes.
C12_Witness ==
  \E i \in Providers :
    /\ apiCall.fn = "reportProviderFailure"
    /\ apiCall.url = providers[i].url
    /\ providers[i].failureCount = MAX_FAILURES_BEFORE_UNHEALTHY
    /\ ~providers[i].isHealthy
    /\ markedAt[i] = now
    /\ [p |-> i, at |-> now + UNHEALTHY_COOLDOWN] \in timers

C29_UnhealthyRecovers ==
  /\ [](\A i \in Providers :
          ~providers[i].isHealthy => /\ markedAt[i] # None
                                     /\ now <= markedAt[i] + UNHEALTHY_COOLDOWN)
  /\ [][\A i \in Providers :
          (~providers[i].isHealthy /\ providers'[i].isHealthy) =>
             \/ \E t \in timers : t.p = i /\ t \notin timers'
             \/ HealthyNonEmpty(providers) = {}]_vars
  /\ []<>(\A i \in Providers : providers[i].isHealthy)

\* C29 witness: a provider that was marked unhealthy is healthy with no failures at the
\* very end of its cooldown, while the other provider has been healthy throughout
C29_Witness ==
  \E i \in Providers :
    /\ markedAt[i] # None
    /\ now = markedAt[i] + UNHEALTHY_COOLDOWN
    /\ providers[i].isHealthy
    /\ providers[i].failureCount = 0
    /\ \A t \in timers : t.p # i
    /\ \A j \in Providers \ {i} : markedAt[j] = None /\ providers[j].isHealthy

C6_NotDegradedMeansFullCoverage ==
  (scanPc = "done" /\ ~degradedMode) =>
    \A b \in fromBlock..latestBlock : b \in fetched

\* C7 as stated: the scan does not go on after 5 consecutive failed requests at the
\* same cursor position (here for scans that read no block-range limit).
C7_AbortAfterFiveFailures ==
  (scanPc = "loop" /\ ~sawRangeLimit) => consecutiveErrors < MaxConsecutiveErrors

\* the message msg reports a block-range limit below the current chunk size
ReportsRangeLimit(msg) == IsRangeLimit(extractMaxBlockRange(msg), chunkSize)

\* what the claim expects of a step that answers a request with a rate-limit response
HalvedAndRetried ==
  /\ chunkSize' = Max(minChunkSize, chunkSize \div 2)
  /\ chunkSize = 2000 => chunkSize' = 1000
  /\ chunkSize = 1000 => chunkSize' = 500
  /\ chunkSize = 500 => chunkSize' = 250
  /\ currentBlock' = currentBlock
  /\ scanPc' = "loop"

\* C14 as stated: every response whose message contains '429', 'compute units' or
\* 'rate limit' halves the chunk size with the floor minChunkSize (2000 -> 1000 -> 500
\* -> 250) and leaves the cursor where it is; every request starts at the cursor; the
\* chunk size is never below the floor.
C14_EveryRateLimitHalves ==
  /\ [](chunkSize >= minChunkSize)
  /\ [][/\ \A msg \in RateLimitMessages : FetchFail(msg) => HalvedAndRetried
        /\ lastRequest' # lastRequest => lastRequest'[1] = currentBlock]_vars

\* C14 amended: a response whose message contains '429', 'compute units' or 'rate limit'
\* and reports no block-range limit below the current chunk size halves the chunk size
\* with the floor minChunkSize (2000 -> 1000 -> 500 -> 250), leaves the cursor where it is
\* and the scan goes on; one that also reports such a limit pins chunkSize, minChunkSize
\* and maxChunkSize to the limit instead, the cursor staying where it is; every request
\* starts at the cursor; the chunk size is never below minChunkSize.
C14_RateLimitHalvesUnlessRangeLimit ==
  /\ [](chunkSize >= minChunkSize)
  /\ [][/\ \A msg \in RateLimitMessages :
             FetchFail(msg) =>
               IF ReportsRangeLimit(msg)
                 THEN /\ chunkSize' = extractMaxBlockRange(msg)
                      /\ minChunkSize' = chunkSize'
                      /\ maxChunkSize' = chunkSize'
                      /\ currentBlock' = currentBlock
                      /\ scanPc' = "loop"
                 ELSE HalvedAndRetried
        /\ lastRequest' # lastRequest => lastRequest'[1] = currentBlock]_vars

\* C14 witness: the chunk size grew to 2000 over the first 3150 blocks; the request at
\* block 3150 was then answered three times in a row with a rate-limit response and the
\* chunk size is 250, the cursor still at 3150.
C14_Witness ==
  /\ scanPc = "loop"
  /\ currentBlock = 3150
  /\ consecutiveErrors = 3
  /\ chunkSize = 250
  /\ minChunkSize = InitialMinChunkSize
  /\ maxChunkSize = InitialMaxChunkSize
  /\ rateLimited
  /\ lastRequest[1] = 3150

\* C8: against the provider of NextScan10, once the limit has been read the chunk size
\* is 10 with minChunkSize = maxChunkSize = 10, every later request spans at most 10
\* blocks, and the scan ends with every requested block fetched, 100% coverage and
\* degradedMode false; a scan of more than 10 blocks ends with chunkSize = 10.
C8_ConvergesToTenBlocks ==
  /\ [](/\ sawRangeLimit => /\ chunkSize = 10
                            /\ minChunkSize = 10
                            /\ maxChunkSize = 10
        /\ scanPc = "done" =>
             /\ \A b \in fromBlock..latestBlock : b \in fetched
             /\ coveragePercent = 100
             /\ ~degradedMode
             /\ ~rateLimited
             /\ latestBlock - fromBlock + 1 > 10 => (sawRangeLimit /\ chunkSize = 10))
  /\ [][(sawRangeLimit /\ lastRequest' # lastRequest) => Span(lastRequest') <= 10]_vars

\* C8 witness: a scan of more than 50 blocks finished after reading the limit.
C8_Witness ==
  /\ scanPc = "done"
  /\ sawRangeLimit
  /\ chunkSize = 10
  /\ latestBlock - fromBlock + 1 > InitialChunkSize
  /\ Span(lastRequest) <= 10
  /\ ~degradedMode

\* C26: the cursor advances only after a successful chunk fetch, to exactly end + 1, and
\* never moves on a failure; at every point of the scan the fetched chunks cover exactly
\* [fromBlock, cursor - 1], and a fetched chunk starts at the cursor, so that it holds no
\* block that was fetched before
C26_CursorAdvancesOnlyOnSuccess ==
  /\ [](scanPc \in {"loop", "done"} => fetched = fromBlock..(currentBlock - 1))
  /\ [][/\ (scanPc = "loop" /\ currentBlock' # currentBlock) =>
             /\ consecutiveErrors' = 0
             /\ lastRequest'[1] = currentBlock
             /\ currentBlock' = lastRequest'[2] + 1
             /\ (lastRequest'[1]..lastRequest'[2]) \cap fetched = {}
             /\ fetched' = fetched \cup (lastRequest'[1]..lastRequest'[2])
        /\ consecutiveErrors' > consecutiveErrors =>
             /\ currentBlock' = currentBlock
             /\ fetched' = fetched]_vars

\* C26 witness: after two fetched chunks a request failed twice; the cursor is where the
\* second chunk left it
C26_Witness ==
  /\ scanPc = "loop"
  /\ consecutiveErrors = 2
  /\ currentBlock = fromBlock + InitialChunkSize + 2 * InitialChunkSize
  /\ fetched = fromBlock..(currentBlock - 1)
  /\ lastRequest[1] = currentBlock

\* a step in which a chunk is fetched (the cursor moves)
ChunkFetched == scanPc = "loop" /\ currentBlock' # currentBlock

\* C27: on every successful chunk fetch, the first success after failed requests
\* included, the consecutive-error counter is reset to 0 and the chunk size is doubled,
\* capped at the maximum chunk size
C27_EverySuccessResetsAndDoubles ==
  [][ChunkFetched => /\ consecutiveErrors' = 0
                     /\ chunkSize' = Min(chunkSize * 2, maxChunkSize)]_vars

\* C27, as the code does it: every success resets the counter, and the chunk size is
\* doubled (capped) only by a success that follows no failed request
C27_SuccessDoublesOnlyWithoutErrors ==
  [][ChunkFetched =>
       /\ consecutiveErrors' = 0
       /\ chunkSize' = IF consecutiveErrors = 0 THEN Min(chunkSize * 2, maxChunkSize)
                       ELSE chunkSize]_vars

\* a chunk fetched after a failed request, with the chunk size as the failure left it
C27_Witness ==
  /\ scanPc = "loop"
  /\ consecutiveErrors = 0
  /\ chunkSize = InitialChunkSize \div 2
  /\ currentBlock = fromBlock + InitialChunkSize \div 2
  /\ maxChunkSize = InitialMaxChunkSize

\* C28: once a block-range limit has been read from a provider error, chunkSize,
\* minChunkSize and maxChunkSize are equal to it; no later success, rate-limit error
\* or other error changes the chunk size (only the reading of a smaller limit does, and
\* it lowers the three together), and every later log request spans at most that many
\* blocks
C28_PinnedAfterRangeLimit ==
  /\ [](sawRangeLimit => /\ chunkSize = minChunkSize
                         /\ chunkSize = maxChunkSize)
  /\ [][sawRangeLimit =>
          /\ ChunkFetched => chunkSize' = chunkSize
          /\ chunkSize' # chunkSize =>
               /\ chunkSize' < chunkSize
               /\ consecutiveErrors' = consecutiveErrors + 1
               /\ \E msg \in ErrorMessages : /\ ReportsRangeLimit(msg)
                                             /\ chunkSize' = extractMaxBlockRange(msg)
          /\ lastRequest' # lastRequest => Span(lastRequest') <= chunkSize]_vars

\* C28 witness: the limit 10 was read; after it two chunks were fetched, then a
\* rate-limit response and a timeout came, and the chunk size is still 10
C28_Witness ==
  /\ scanPc = "loop"
  /\ sawRangeLimit
  /\ chunkSize = 10
  /\ minChunkSize = 10
  /\ maxChunkSize = 10
  /\ currentBlock = fromBlock + 20
  /\ consecutiveErrors = 2
  /\ rateLimited
  /\ Span(lastRequest) = 10

(***************************************************************************)
(* Properties of scanRecentHolders                                         *)
(***************************************************************************)
\* the sum of the balances of a ledger
RECURSIVE SumBalances(_)
SumBalances(m) == IF m = <<>> THEN 0 ELSE Head(m).balance + SumBalances(Tail(m))

\* no log of logs has the zero address as sender or receiver
NoZeroAddressLog(logs) ==
  \A i \in 1..Len(logs) : logs[i].from # ZeroAddress /\ logs[i].to # ZeroAddress

\* C15: when no fetched Transfer log has the zero address as sender or receiver, the
\* balances of the holder ledger sum to exactly 0 over all addresses
C15_ClosedLedgerSumsToZero ==
  (hPc = "done" /\ NoZeroAddressLog(allLogs)) => SumBalances(balances) = 0

\* a finished scan that fetched transfers between accounts only, after which the
\* ledger holds a debit and a credit
C15_Witness ==
  /\ hPc = "done"
  /\ Len(allLogs) = 2
  /\ NoZeroAddressLog(allLogs)
  /\ balances = << [address |-> "0xa1", balance |-> -2],
                   [address |-> "0xa2", balance |-> 2] >>

\* C16: the scan reports 'recent' exactly when the successful chunks are strictly more
\* than the failed ones and at least one holder was found, and 'partial' otherwise
C16_RecentIffStrictMajority ==
  hPc = "done" =>
    /\ completeness \in {"recent", "partial"}
    /\ completeness = "recent" <=> (successfulChunks > failedChunks /\ Len(holders) >= 1)

\* C16, as the code decides it: 'partial' exactly when the failed chunks are strictly
\* more than the successful ones or no holder was found
C16_PartialIffFailedMajorityOrEmpty ==
  hPc = "done" =>
    /\ completeness \in {"recent", "partial"}
    /\ completeness = "partial" <=> (failedChunks > successfulChunks \/ Len(holders) = 0)

\* a finished scan with as many failed chunks as successful ones and a holder found
C16_Witness ==
  /\ hPc = "done"
  /\ successfulChunks = 1
  /\ failedChunks = 1
  /\ Len(holders) = 1
  /\ completeness = "recent"

\* the balance of the i-th returned holder, as the ledger holds it
HolderBalance(i) == MapGetOrZero(balances, holders[i].address)

\* C17: in the returned list a holder with a strictly larger balance comes before a
\* holder with a smaller one, and holders with equal balances keep the order in which
\* their addresses were first inserted into the ledger
C17_DescendingAndStable ==
  hPc = "done" =>
    \A i \in 1..Len(holders) : \A j \in 1..Len(holders) :
      /\ holders[i].balance = BalanceToString(HolderBalance(i))
      /\ HolderBalance(i) > HolderBalance(j) => i < j
      /\ (i < j /\ HolderBalance(i) = HolderBalance(j)) =>
           MapIndex(balances, holders[i].address) < MapIndex(balances, holders[j].address)

\* a finished scan that returns two holders of equal balance, first the one whose
\* address sorts last and was inserted first
C17_Witness ==
  /\ hPc = "done"
  /\ Len(holders) = 2
  /\ holders[1].address = "0xa2"
  /\ HolderBalance(1) = HolderBalance(2)
  /\ MapIndex(balances, "0xa2") = 1

\* the sum of the percentages of a holder list, in hundredths of a percent
RECURSIVE SumPercentages(_)
SumPercentages(list) ==
  IF list = <<>> THEN 0 ELSE Head(list).percentage + SumPercentages(Tail(list))

\* every percentage is floor(balance * 10000 / totalSupply) hundredths, and 0 when the
\* total supply is 0 (checked against the multiplication, which fits for these balances)
PercentagesAsComputed ==
  \A i \in 1..Len(holders) :
    IF supply > 0
      THEN holders[i].percentage = (HolderBalance(i) * PercentScale) \div supply
      ELSE holders[i].percentage = 0

\* C18: for every scan result, scans with failed chunks included, each percentage is
\* floor(balance * 10000 / totalSupply) / 100, the percentages of the returned holders
\* sum to at most 100, and with total supply 0 every percentage is 0
C18_PercentagesSumToAtMost100 ==
  hPc = "done" => (PercentagesAsComputed /\ SumPercentages(holders) <= 100 * 100)

\* C18, the part that holds of every scan result: the value of each percentage
C18_PercentagesAsComputed == hPc = "done" => PercentagesAsComputed

\* C18, for the scans in which no chunk failed: the percentages sum to at most 100
C18_CompleteScanSumsToAtMost100 ==
  (hPc = "done" /\ failedChunks = 0) => SumPercentages(holders) <= 100 * 100

\* a finished scan that missed a burn and returns a holder with 200 percent
C18_Witness ==
  /\ hPc = "done"
  /\ failedChunks = 1
  /\ supply = 1
  /\ Len(holders) = 1
  /\ holders[1].percentage = 2 * 100 * 100

\* the chain holds one Transfer log, the mint of the whole supply to account a, and the
\* scan has fetched it
OnlyMintFetched(a) ==
  /\ supply = MintedSupply
  /\ Len(chainLogs) = 1
  /\ chainLogs[1].from = ZeroAddress
  /\ chainLogs[1].to = a
  /\ chainLogs[1].data = MintedSupply
  /\ allLogs = chainLogs

\* C19: scanning a token with total supply 1,000,000 whose only Transfer log is a mint
\* of 1,000,000 to address A yields exactly one holder record, with address A (in lower
\* case), balance "1000000" and percentage 100.00, and no record for the zero address
C19_SingleMintSingleHolder ==
  \A a \in TopicAddresses :
    (hPc = "done" /\ OnlyMintFetched(a)) =>
      holders = << [address |-> ToLowerCase(a),
                    balance |-> <<"1", "0", "0", "0", "0", "0", "0">>,
                    percentage |-> 100 * 100] >>

\* a finished scan of the token with the single mint, to the address in mixed case
C19_Witness ==
  /\ hPc = "done"
  /\ OnlyMintFetched("0xA1")
  /\ Len(holders) = 1
  /\ holders[1].address = "0xa1"
  /\ completeness = "recent"

\* what the transfers of logs add to (positive) and take from (negative) address a
RECURSIVE Delta(_, _)
Delta(a, logs) ==
  IF logs = <<>> THEN 0
  ELSE LET log == Head(logs)
           moved == IF log.data = EmptyData THEN 0 ELSE log.data
       IN (IF log.to # Null /\ ToLowerCase(log.to) = a THEN moved ELSE 0)
          - (IF log.from # Null /\ ToLowerCase(log.from) = a THEN moved ELSE 0)
          + Delta(a, Tail(logs))

\* C30: the holders returned in approximate mode are exactly the addresses whose
\* accumulated delta over the fetched logs is strictly positive, each once and with
\* that delta as its balance; a mint or a burn changes only the side that is not the
\* zero address, which is never a holder
C30_HoldersArePositiveDeltas ==
  hPc = "done" =>
    /\ {holders[i].address : i \in 1..Len(holders)}
         = {a \in Accounts : Delta(a, allLogs) > 0}
    /\ Len(holders) = Cardinality({a \in Accounts : Delta(a, allLogs) > 0})
    /\ \A i \in 1..Len(holders) :
         /\ holders[i].balance = BalanceToString(Delta(holders[i].address, allLogs))
         /\ holders[i].address # ZeroAddress
    /\ MapIndex(balances, ZeroAddress) = 0

\* C30 witness: a finished scan that fetched a mint, a transfer and a burn; the minter
\* is in the ledger with delta 0 and only the receiver of the transfer is a holder
C30_Witness ==
  /\ hPc = "done"
  /\ Len(allLogs) = 3
  /\ \E i \in 1..3 : allLogs[i].from = ZeroAddress
  /\ \E i \in 1..3 : allLogs[i].to = ZeroAddress
  /\ MapIndex(balances, "0xa1") = 1
  /\ Delta("0xa1", allLogs) = 0
  /\ Delta("0xa2", allLogs) = 1
  /\ Len(holders) = 1
  /\ holders[1].address = "0xa2"

(***************************************************************************)
(* Properties of detectTradingTax                                          *)
(***************************************************************************)
\* the run could not reach a provider, or a probe of the run failed in the provider
ProviderFailed == ~HasConfig(tChain) \/ providerErrors

\* C20: tax detection yields NoTax whenever no fee function can be read from the
\* contract (on every run), TaxUnknown only when the provider call itself fails, and
\* TaxUnknown, not NoTax, whenever the probes fail because of a provider-level failure
C20_NoTaxNeverMeansCouldNotVerify ==
  tPc = "done" =>
    /\ (feeFunctions = NoFeeFunctions /\ ~ProviderFailed) => taxResult.state = "NoTax"
    /\ taxResult.state = "TaxUnknown" => ProviderFailed
    /\ (~readSucceeded /\ ProviderFailed) => taxResult.state = "TaxUnknown"

\* C20, as the code decides it: TaxUnknown exactly when the chain has no provider
\* configuration, and NoTax exactly when no probe returned a value, for whatever reason
C20_NoTaxIffNoProbeReturned ==
  tPc = "done" =>
    /\ taxResult.state = "TaxUnknown" <=> ~HasConfig(tChain)
    /\ taxResult.state = "NoTax" <=> (HasConfig(tChain) /\ ~readSucceeded)

\* a finished run against a contract with fee functions whose probes all failed in
\* the provider, reported as NoTax
C20_Witness ==
  /\ tPc = "done"
  /\ feeFunctions[2] = 500
  /\ feeFunctions[5] = 500
  /\ providerErrors
  /\ ~readSucceeded
  /\ taxResult.state = "NoTax"

(***************************************************************************)
(* Properties of decodeEventLogs and determineTransactionType              *)
(***************************************************************************)
\* the names of the events of a list of decoded events, as a set
EventNameSet(logs) == {logs[i].eventName : i \in 1..Len(logs)}

\* the precedence Swap > Mint > Burn > Approval > Transfer > other over a set of names
TypeOfNames(names) ==
  CASE "Swap" \in names -> "swap"
    [] "Swap" \notin names /\ "Mint" \in names -> "mint"
    [] {"Swap", "Mint"} \cap names = {} /\ "Burn" \in names -> "burn"
    [] {"Swap", "Mint", "Burn"} \cap names = {} /\ "Approval" \in names -> "approve"
    [] {"Swap", "Mint", "Burn", "Approval"} \cap names = {} /\ "Transfer" \in names
         -> "transfer"
    [] OTHER -> "other"

\* C22: determineTransactionType classifies the decoded events of a transaction by the
\* precedence swap, mint, burn, approve, transfer, other (also for no event at all); the
\* result depends only on the set of the event names, not on their order
C22_TypeByFixedPrecedence ==
  lPc # "idle" => txType = TypeOfNames(EventNameSet(decodedLogs))

\* C22 witness: three events with the Swap last and an Approval first are a swap
C22_Witness ==
  /\ lPc = "determineTransactionType"
  /\ Len(decodedLogs) = 3
  /\ decodedLogs[1].eventName = "Approval"
  /\ decodedLogs[2].eventName = "Transfer"
  /\ decodedLogs[3].eventName = "Swap"
  /\ txType = "swap"

\* a log of the token contract that is a well-formed Transfer, Approval, Mint or Burn:
\* it has its indexed addresses among the topics and a 32-byte amount as data
WellFormedTokenEvent(log) ==
  /\ ToLowerCase(log.address) = ToLowerCase(tokenAddress)
  /\ log.topic0 \in {"Transfer", "Approval", "Mint", "Burn"}
  /\ log.data # EmptyData
  /\ log.topic0 \in {"Transfer", "Approval"} => log.indexed = 2
  /\ log.indexed >= 1

\* C24: decodeEventLogs returns for every batch; its output holds exactly one decoded
\* event, in input order, for every log of the token contract that is a well-formed
\* Transfer, Approval, Mint or Burn; logs that fail to decode, logs of other events and
\* logs of other contracts leave nothing in the output
C24_DecodesEveryWellFormedLog ==
  lPc = "decodeEventLogs" =>
    LET expected == SelectSeq(txLogs, WellFormedTokenEvent) IN
    /\ Len(decodedLogs) = Len(expected)
    /\ \A i \in 1..Len(expected) :
         /\ decodedLogs[i].eventName = expected[i].topic0
         /\ decodedLogs[i].args[Len(decodedLogs[i].args)] = BalanceToString(expected[i].data)

\* C24 witness: a Transfer of the token without data, which fails to decode, is followed
\* by a well-formed Mint, which is the one decoded event
C24_Witness ==
  /\ lPc = "decodeEventLogs"
  /\ Len(txLogs) = 2
  /\ txLogs[1] = [address |-> "0xT1", topic0 |-> "Transfer", indexed |-> 2,
                  data |-> EmptyData]
  /\ txLogs[2].topic0 = "Mint"
  /\ Len(decodedLogs) = 1
  /\ decodedLogs[1].eventName = "Mint"
  /\ txType = "mint"

(***************************************************************************)
(* Properties of calculateFlowForPeriod                                     *)
(***************************************************************************)
\* the hours of the windows and the period reported for each
WindowHours == {4, 12, 24}
PeriodOf(metrics, h) ==
  IF h = 4 THEN metrics.period4h
  ELSE IF h = 12 THEN metrics.period12h ELSE metrics.period24h

\* the transfers of ts inside the window of h hours with neither party the zero address
CountedTransfers(ts, h) ==
  SelectSeq(ts, LAMBDA t : /\ t.timestamp >= CurrentTimestamp - h * Hour
                           /\ t.from # ZeroAddress
                           /\ t.to # ZeroAddress)

RECURSIVE SumValues(_)
SumValues(ts) == IF ts = <<>> THEN 0 ELSE ts[1].value + SumValues(Tail(ts))

\* C21: for each of the windows 4h, 12h and 24h, and every list of transfers,
\* the period calculateFlowForPeriod returns has inflow equal to outflow and a net
\* flow of zero (in tokens and, when a price is given, in USD); inflow, outflow
\* and the number of unique addresses are those of the window's transfers between
\* two non-zero addresses, so a mint or a burn adds nothing to any of them.
C21_FlowSymmetricAndSkipsZeroAddress ==
  fPc = "done" =>
    \A h \in WindowHours :
      LET p == PeriodOf(flowMetrics, h)
          counted == CountedTransfers(transfers, h)
      IN /\ p.inflow = p.outflow
         /\ ParseFloat(p.netFlow, flowDecimals) = 0
         /\ ParseFloat(p.inflow, flowDecimals) = SumValues(counted)
         /\ p.uniqueAddresses =
              Cardinality(UNION {{ToLowerCase(counted[i].from), ToLowerCase(counted[i].to)} :
                                    i \in 1..Len(counted)})
         /\ p.inflowUSD = p.outflowUSD
         /\ HasPrice(currentPrice) => p.netFlowUSD = 0

\* an analysis with a price whose 24h window holds a mint and a transfer between
\* accounts, the transfer being outside the 4h window
C21_Witness ==
  /\ fPc = "done"
  /\ HasPrice(currentPrice)
  /\ flowDecimals = 3
  /\ \E i, j \in 1..Len(transfers) :
       /\ transfers[i].from = ZeroAddress
       /\ transfers[i].timestamp >= CurrentTimestamp - 4 * Hour
       /\ ~IsMintOrBurn(transfers[j])
       /\ transfers[j].value = 1500
       /\ transfers[j].timestamp < CurrentTimestamp - 4 * Hour
       /\ transfers[j].timestamp >= CurrentTimestamp - 24 * Hour
  /\ flowMetrics.period24h.inflow = <<"1", ".", "5">>
  /\ flowMetrics.period4h.inflow = <<"0", ".", "0">>
  /\ flowMetrics.period4h.transferCount = 1

(***************************************************************************)
(* Properties of the ranking of scanDAppActivity                            *)
(***************************************************************************)
\* the hashes the loop has gone through without skipping, sent to address a
HashesSentTo(a) ==
  {txHashList[i] : i \in {k \in 1..(hashIdx - 1) : LowerAddress(TxTo(txTo, txHashList[k])) = a}}

RECURSIVE SumTxnCounts(_)
SumTxnCounts(list) == IF list = <<>> THEN 0 ELSE list[1].txnCount + SumTxnCounts(Tail(list))

\* C25: the loop goes through at most 100 hashes, all different; a contract's
\* count is the number of different hashes recorded for it, each of them a hash
\* sent to that contract, and no contract has two entries; the activities
\* returned are at most 10, each an entry of the map, in descending order of
\* txnCount, no contract left out has more transactions than one listed, the
\* ranks are 1..n in that order, and the counts listed sum to at most 100.
C25_RankingCapsAndOrder ==
  /\ Len(txHashList) <= MaxProcessedHashes
  /\ processedCount <= MaxProcessedHashes
  /\ \A i, j \in 1..Len(txHashList) : i # j => txHashList[i] # txHashList[j]
  /\ \A i \in 1..Len(contractInteractions) :
       /\ contractInteractions[i].txHashes \subseteq HashesSentTo(contractInteractions[i].address)
       /\ contractInteractions[i].txnCount = Cardinality(contractInteractions[i].txHashes)
       /\ \A j \in 1..Len(contractInteractions) :
            i # j => contractInteractions[i].address # contractInteractions[j].address
  /\ SumTxnCounts(contractInteractions) = processedCount
  /\ rPc = "done" =>
       /\ Len(activities) <= TopActivities
       /\ Len(activities) = Min(TopActivities, Len(contractInteractions))
       /\ \A i \in 1..Len(activities) :
            /\ activities[i].rank = i
            /\ \E k \in 1..Len(contractInteractions) :
                 /\ contractInteractions[k].address = activities[i].contractAddress
                 /\ contractInteractions[k].txnCount = activities[i].txnCount
            /\ \A j \in 1..Len(activities) :
                 /\ i < j => activities[i].txnCount >= activities[j].txnCount
                 /\ i # j => activities[i].contractAddress # activities[j].contractAddress
            /\ \A k \in 1..Len(contractInteractions) :
                 (\A j \in 1..Len(activities) :
                    activities[j].contractAddress # contractInteractions[k].address)
                   => contractInteractions[k].txnCount <= activities[i].txnCount
       /\ SumTxnCounts(activities) <= MaxProcessedHashes

\* a finished ranking of more than 100 transactions with two logs each, sent to
\* more than ten contracts, some lookups skipped, two listed contracts tied
C25_Witness ==
  /\ rPc = "done"
  /\ Len(logHashes) > 2 * MaxProcessedHashes
  /\ Len(txHashList) = MaxProcessedHashes
  /\ processedCount < MaxProcessedHashes
  /\ Len(contractInteractions) > TopActivities
  /\ Len(activities) = TopActivities
  /\ activities[1].txnCount > activities[TopActivities].txnCount
  /\ \E i \in 1..(TopActivities - 1) : activities[i].txnCount = activities[i + 1].txnCount

(***************************************************************************)
(* Properties of analyzeEnhancedRisk                                        *)
(***************************************************************************)
\* the fixed delta of each factor on the EVM path and in the Solana branch
EvmDelta(name) ==
  CASE name = "Unverified Contract" -> -15
    [] name = "Upgradeable Proxy Detected" -> -30
    [] name = "Owner Privileges Detected" -> -25
    [] name = "Unlimited Minting Authority" -> -35
    [] name = "Capped Mint Authority" -> -5
    [] name = "Recently Deployed Contract" -> -15
    [] name = "Established Contract" -> 5
    [] name = "Potential Honeypot Detected" -> -40
    [] name = "Indeterminate Trading Tax" -> -25
    [] name = "High Trading Tax" -> -20
    [] name = "Moderate Trading Tax" -> -10
    [] name = "Low Trading Tax" -> -5
    [] name = "Critical Liquidity Risk" -> -30
    [] name = "Low Liquidity" -> -20
    [] name = "Moderate Liquidity" -> -10
    [] name = "Healthy Liquidity" -> 0
    [] name = "Dominant Whale Holder" -> -25
    [] name = "High Holder Concentration" -> -15
    [] name = "Distributed Holder Base" -> 0

SolanaDelta(name) ==
  CASE name = "Low Liquidity" -> -30
    [] name = "Moderate Liquidity" -> -15
    [] name = "High Holder Concentration" -> -25
    [] name = "Moderate Holder Concentration" -> -15
    [] name = "Limited Analysis Available" -> 0

OnSolana == ToLowerCase(tokenData.chainId) = "solana"

RECURSIVE SumDeltas(_)
SumDeltas(names) ==
  IF names = <<>> THEN 0
  ELSE (IF OnSolana THEN SolanaDelta(Head(names)) ELSE EvmDelta(Head(names)))
         + SumDeltas(Tail(names))

\* C23: on the EVM path and in the Solana branch the running score is 100 plus
\* the fixed deltas of the factors found so far, no factor is found twice, and
\* the score returned is that sum brought into [1, 100] once every check has
\* run: a whole number between 1 and 100 for every combination of findings.
C23_ScoreClampedInRange ==
  /\ score = 100 + SumDeltas(factors)
  /\ \A i, j \in 1..Len(factors) : i # j => factors[i] # factors[j]
  /\ aPc # "done" => riskAnalysis = NoRiskAnalysis
  /\ aPc = "done" =>
       /\ riskAnalysis.score \in 1..100
       /\ riskAnalysis.score = Max(1, Min(100, score))

\* an EVM analysis whose deductions take the sum below 1, and which returns 1
C23_Witness ==
  /\ aPc = "done"
  /\ ~OnSolana
  /\ score < 1
  /\ riskAnalysis.score = 1
  /\ Len(factors) >= 9

\* companion cases: the longevity bonus takes the sum above 100, and the Solana
\* branch with both of its deductions
C23_WitnessBonus ==
  /\ aPc = "done"
  /\ ~OnSolana
  /\ score = 105
  /\ riskAnalysis.score = 100

C23_WitnessSolana ==
  /\ aPc = "done"
  /\ OnSolana
  /\ tokenData.chainId = "Solana"
  /\ score = 45
  /\ riskAnalysis.score = 45

(***************************************************************************)
(* Properties of the provider pool: health and failure counts               *)
(***************************************************************************)
\* C36 (as stated): in every reachable state a provider is unhealthy exactly when
\* its failure count is at least MAX_FAILURES_BEFORE_UNHEALTHY.
C36_UnhealthyIffCountAtThreshold ==
  \A i \in Providers :
    ~providers[i].isHealthy <=> providers[i].failureCount >= MAX_FAILURES_BEFORE_UNHEALTHY

\* the direction that does hold: a count at the threshold means unhealthy
C36_CountAtThresholdImpliesUnhealthy ==
  \A i \in Providers :
    providers[i].failureCount >= MAX_FAILURES_BEFORE_UNHEALTHY => ~providers[i].isHealthy

\* C37 (as stated): at the step that flips a provider to unhealthy, its last 3
\* reports were all failures, with no success report for it in between.
C37_MarkedAfterThreeInARow ==
  [][\A i \in Providers :
       (providers[i].isHealthy /\ ~providers'[i].isHealthy)
         => streak'[i] >= MAX_FAILURES_BEFORE_UNHEALTHY]_vars

C39_ChunkSizesOrderedRequestsInRange ==
  /\ [](/\ 1 <= minChunkSize
        /\ minChunkSize <= chunkSize
        /\ chunkSize <= maxChunkSize)
  /\ [](lastRequest # <<>> =>
          /\ fromBlock <= lastRequest[1]
          /\ lastRequest[1] <= lastRequest[2]
          /\ lastRequest[2] <= latestBlock)
  /\ [][(scanPc = "loop" /\ scanVars' # scanVars) =>
          /\ lastRequest'[1] = currentBlock
          /\ Span(lastRequest') >= 1
          /\ Span(lastRequest') <= chunkSize]_vars

\* a scan that halved its chunk size down to the minimum without reading a range
\* limit; its last request ended at latestBlock and failed
C39_Witness ==
  /\ scanPc = "loop"
  /\ ~sawRangeLimit
  /\ chunkSize = minChunkSize
  /\ lastRequest # <<>>
  /\ lastRequest[2] = latestBlock
  /\ Span(lastRequest) < InitialChunkSize
  /\ Span(lastRequest) > chunkSize

(***************************************************************************)
(* Properties of fetchChunkWithRetry: the ranges requested                  *)
(***************************************************************************)
\* the log request of the running call of fetchChunkWithRetry
RunningRequest == Head(stack)

\* C40 (as stated): every log request of scanRecentHolders, those produced by
\* splitting included, has fromBlock <= toBlock and lies inside the scan's
\* [fromBlock, latestBlock].
C40_RequestsWellFormedAndInside ==
  (hPc = "fetch" /\ stack # <<>>) =>
    /\ RunningRequest.start <= RunningRequest.end
    /\ hFromBlock <= RunningRequest.start
    /\ RunningRequest.end <= hLatestBlock

\* what holds instead: the first half of every split is well formed and inside
\* the scan, and every request ends at or before latestBlock
C40_RequestsEndInside ==
  (hPc = "fetch" /\ stack # <<>>) =>
    /\ hFromBlock <= RunningRequest.start
    /\ RunningRequest.start <= RunningRequest.end + 1
    /\ RunningRequest.end <= hLatestBlock

\* the blocks of a call's range (none when start > end)
CallBlocks(call) == call.start..call.end

\* the last block of the initial chunk the loop is at
InitialChunkEnd == Min(loopStart + INITIAL_CHUNK_SIZE - 1, hLatestBlock)

\* the calls a pending call can still make, itself included: 2n - 1 for n nominal
\* leaves of MinSplitChunkSize
RECURSIVE PendingWork(_)
PendingWork(calls) ==
  IF calls = <<>> THEN 0
  ELSE 2 * (Head(calls).chunkSize \div MinSplitChunkSize) - 1 + PendingWork(Tail(calls))

LogsOfBlock(logs, b) == Len(SelectSeq(logs, LAMBDA l : l.blockNumber = b))

\* C32: within an initial chunk every step of fetchChunkWithRetry lowers the
\* number of calls that can still be made, and no call is split at nominal size
\* 500, so the recursion terminates; the pending ranges are consecutive and end
\* with the initial chunk; a split replaces a range by two disjoint ranges with
\* the same blocks; a range that is fetched or counted as failed is the one
\* that starts where the ranges settled before it end, so the settled ranges are
\* pairwise disjoint and cover the initial chunk; and no log is in allLogs more
\* often than on the chain.
C32_SplitTerminatesAndPartitions ==
  /\ [](hPc = "fetch" =>
          /\ stack # <<>>
          /\ loopStart <= Head(stack).start
          /\ stack[Len(stack)].end = InitialChunkEnd
          /\ \A k \in 1..(Len(stack) - 1) : stack[k + 1].start = stack[k].end + 1
          /\ \A k \in 1..Len(stack) :
               /\ stack[k].chunkSize >= MinSplitChunkSize
               /\ stack[k].start <= stack[k].end + 1)
  /\ [](\A i \in 1..Len(allLogs) :
          LET b == allLogs[i].blockNumber
          IN LogsOfBlock(allLogs, b) <= LogsOfBlock(chainLogs, b))
  /\ [][(hPc = "fetch" /\ stack' # stack) =>
          /\ (hPc' = "fetch" /\ loopStart' = loopStart) =>
               PendingWork(stack') < PendingWork(stack)
          /\ Len(stack') > Len(stack) =>
               /\ Head(stack).chunkSize > MinSplitChunkSize
               /\ CallBlocks(stack'[1]) \cup CallBlocks(stack'[2]) = CallBlocks(Head(stack))
               /\ CallBlocks(stack'[1]) \cap CallBlocks(stack'[2]) = {}
               /\ allLogs' = allLogs
               /\ successfulChunks' + failedChunks' = successfulChunks + failedChunks
          /\ Len(stack') <= Len(stack) =>
               /\ successfulChunks' + failedChunks' = successfulChunks + failedChunks + 1
               /\ \/ allLogs' = allLogs /\ failedChunks' = failedChunks + 1
                  \/ /\ allLogs' = allLogs \o LogsIn(chainLogs, Head(stack).start,
                                                     Head(stack).end)
                     /\ successfulChunks' = successfulChunks + 1
               /\ (hPc' = "fetch" /\ loopStart' = loopStart) =>
                    Head(stack').start = Head(stack).end + 1
               /\ (hPc' = "fetch" /\ loopStart' # loopStart) =>
                    /\ Head(stack).end = InitialChunkEnd
                    /\ Head(stack').start = InitialChunkEnd + 1]_vars

\* a scan that split its first chunk down to nominal size 500, fetched some of
\* the quarters and counted another as failed, with a log of the chunk in allLogs
C32_Witness ==
  /\ hPc = "fetch"
  /\ hLatestBlock >= INITIAL_CHUNK_SIZE
  /\ loopStart = 0
  /\ Len(stack) = 1
  /\ Head(stack).chunkSize = MinSplitChunkSize
  /\ Head(stack).start = 3 * MinSplitChunkSize
  /\ successfulChunks >= 1
  /\ failedChunks >= 1
  /\ Len(allLogs) >= 1

(***************************************************************************)
(* Properties of getContractAge                                            *)
(***************************************************************************)
\* no code before the deployment, code at every block from the deployment on
CodeMonotone == \A b \in 0..(ageLatest - 1) : codeAt[b] => codeAt[b + 1]

BlocksWithCode == {b \in 0..ageLatest : codeAt[b]}

\* C33: every iteration of the binary search narrows [low, high], which stays
\* inside [0, latestBlock], so the loop ends; when the contract has code at the
\* latest block and code presence is monotone, the loop ends with deployBlock
\* the least block with code, and that block's timestamp is what is returned.
C33_BinarySearchFindsLeastBlock ==
  /\ [](gPc # "idle" => /\ 0 <= low /\ low <= high + 1 /\ high <= ageLatest)
  /\ [][(gPc = "search" /\ gPc' = "search" /\ <<low, high>>' # <<low, high>>)
          => high' - low' < high - low]_vars
  /\ []((gPc # "idle" /\ low > high /\ codeAt[ageLatest] /\ CodeMonotone) =>
          /\ deployBlock = SetMin(BlocksWithCode)
          /\ ageResult.deployedAt # None =>
               ageResult.deployedAt = BlockTimestamp(SetMin(BlocksWithCode)))

\* a search over a chain on which the contract was deployed strictly between
\* block 0 and the latest block has answered
C33_Witness ==
  /\ gPc = "done"
  /\ low > high
  /\ ageLatest = MaxAgeLatest
  /\ CodeMonotone
  /\ codeAt[ageLatest]
  /\ ~codeAt[2]
  /\ codeAt[4]
  /\ ageResult.deployedAt # None

(***************************************************************************)
(* Properties of detectHoneypot                                            *)
(***************************************************************************)
\* the score of the code that was read: 30 per matched selector, 20 for a code
\* shorter than 3000, 25 for a code shorter than 2000 with a matched selector
WeightedScore ==
  30 * Cardinality(codeSelectors)
    + (IF codeLength < 3000 THEN 20 ELSE 0)
    + (IF codeLength < 2000 /\ Cardinality(codeSelectors) >= 1 THEN 25 ELSE 0)

\* C34: once the code was read, detectHoneypot answers true exactly when the
\* weighted score is at least 50; the calls of tradingOpen() and
\* tradingEnabled() are only made at a score of 50 or more, and whatever they
\* return or throw the answer is true; an answer of true always has a score of
\* at least 50 behind it.
C34_HoneypotIffScoreAtLeast50 ==
  /\ [](honeypotScore # None => honeypotScore = WeightedScore)
  /\ []((yPc = "done" /\ honeypotScore # None) =>
          (honeypotResult <=> WeightedScore >= 50))
  /\ [](yPc \in {"tradingOpen", "tradingEnabled"} => WeightedScore >= 50)
  /\ [][(yPc \in {"tradingOpen", "tradingEnabled"} /\ yPc' = "done")
          => honeypotResult']_vars
  /\ [](honeypotResult => (honeypotScore # None /\ honeypotScore >= 50))

\* a code under 3000 characters with one matched selector scored exactly 50,
\* the trading check settled, and the answer is true
C34_Witness ==
  /\ yPc = "done"
  /\ Cardinality(codeSelectors) = 1
  /\ codeLength = 2999
  /\ honeypotScore = 50
  /\ honeypotResult

\* a code of 3000 characters with one matched selector scored 30: the answer is false
C34_WitnessBelow ==
  /\ yPc = "done"
  /\ Cardinality(codeSelectors) = 1
  /\ codeLength = 3000
  /\ honeypotScore = 30
  /\ ~honeypotResult

(***************************************************************************)
(* Properties of analyzeEnhancedRisk when the checks fail                  *)
(***************************************************************************)
FindingAdded(name) ==
  /\ \A k \in 1..Len(factors) : factors[k] # name
  /\ \E k \in 1..Len(factors') : factors'[k] = name

OwnerDelta == IF tokenData.hasOwnerFunction THEN -25 ELSE 0

\* the steps of the proxy, age and honeypot checks whose provider calls all failed
\* add no finding and leave the score alone (the owner check shares the step of
\* the proxy check); the 'Indeterminate Trading Tax' finding is only added by the
\* step of the tax detection; every step but the last leaves no report and the
\* last one leaves a report
C35_OtherFailedChecksAddNothing ==
  [][/\ ProxyDetected(ProxyOnFailure) =>
          /\ score' = score + OwnerDelta
          /\ ~FindingAdded("Upgradeable Proxy Detected")
          /\ Len(factors') <= Len(factors) + 1
     /\ AgeFound(AgeOnFailure) => (score' = score /\ factors' = factors)
     /\ HoneypotChecked(HoneypotOnFailure) => (score' = score /\ factors' = factors)
     /\ FindingAdded("Indeterminate Trading Tax") => aPc = "tax"
     /\ (aPc # "done" /\ aPc' = "done") => riskAnalysis' # NoRiskAnalysis]_vars

\* C35: as above, and the step of the mint-cap check whose provider call failed
\* adds no finding and leaves the score alone.
C35_FailedChecksAddNothing ==
  [][/\ ProxyDetected(ProxyOnFailure) =>
          /\ score' = score + OwnerDelta
          /\ ~FindingAdded("Upgradeable Proxy Detected")
          /\ Len(factors') <= Len(factors) + 1
     /\ MintAnalysed(MintOnFailure) => (score' = score /\ factors' = factors)
     /\ AgeFound(AgeOnFailure) => (score' = score /\ factors' = factors)
     /\ HoneypotChecked(HoneypotOnFailure) => (score' = score /\ factors' = factors)
     /\ FindingAdded("Indeterminate Trading Tax") => aPc = "tax"
     /\ (aPc # "done" /\ aPc' = "done") => riskAnalysis' # NoRiskAnalysis]_vars

\* a report was produced although every check failed: from no step on is an
\* analysis stuck
C35_EveryStageCanFinish ==
  /\ (aPc = "proxy" => ENABLED ProxyDetected(ProxyOnFailure))
  /\ (aPc = "mint" => ENABLED MintAnalysed(MintOnFailure))
  /\ (aPc = "age" => ENABLED AgeFound(AgeOnFailure))
  /\ (aPc = "honeypot" => ENABLED HoneypotChecked(HoneypotOnFailure))
  /\ (aPc = "tax" => ENABLED TaxDetected(TaxOnFailure))

(***************************************************************************)
(* Properties of the accurate mode of scanRecentHolders                    *)
(***************************************************************************)
\* the keys of the ledger whose query was answered with a positive balance
AnsweredPositive ==
  {k \in 1..Len(qLedger) :
     ~QueryFails(failPattern, k) /\ ChainBalance(balancePattern, k) > 0}

ReportedAddresses == {accurateHolders[i].address : i \in 1..Len(accurateHolders)}

\* C31: at most 50 balance queries are in flight; queries are only started when
\* none is in flight, at most 50 at a time and one for each address of the next
\* slice; the holders returned are the addresses whose query answered a positive
\* balance, each once and with the balance that was answered, whatever its delta in
\* the ledger; an address whose query failed is left out like one of balance 0,
\* and the scan goes on after a failed query until it returns.
C31_BatchesOfFiftyQueriedBalances ==
  /\ [](inFlight >= 0 /\ inFlight <= 50)
  /\ [][inFlight' > inFlight =>
          /\ inFlight = 0
          /\ inFlight' = Min(50, Len(addresses) - batchStart)]_vars
  /\ [][(qPc = "batch" /\ qPc' # "batch") => inFlight = 0]_vars
  /\ [](qPc = "done" =>
          /\ ReportedAddresses = AnsweredPositive
          /\ Len(accurateHolders) = Cardinality(AnsweredPositive)
          /\ \A i \in 1..Len(accurateHolders) :
               accurateHolders[i].balance =
                 BalanceToString(ChainBalance(balancePattern, accurateHolders[i].address)))
  /\ [](qPc \in {"loop", "batch"} =>
          ENABLED (BatchStart \/ QuerySettle \/ BatchDone \/ AccurateFinish))

\* a scan of more than two batches returned although every third query failed:
\* key 1, whose delta in the ledger is 0, is reported with its queried balance of
\* 10, key 3, whose query failed, is not reported
C31_Witness ==
  /\ qPc = "done"
  /\ Len(addresses) > 2 * BATCH_SIZE
  /\ failPattern = "everyThird"
  /\ balancePattern = "growing"
  /\ qLedger[1].balance = 0
  /\ \E i \in 1..Len(accurateHolders) :
       accurateHolders[i].address = 1 /\ accurateHolders[i].balance = <<"1", "0">>
  /\ 3 \notin ReportedAddresses

\* a full batch is in flight
C31_WitnessFullBatch == qPc = "batch" /\ inFlight = BATCH_SIZE /\ batchStart = BATCH_SIZE

=============================================================================
